---- MODULE Spec2Model ----
(***************************************************************************)
(* Verification model of three applications of the repository:             *)
(*   - the quiz generator (Mlops/STUDY-BUDDY-AI): structured extraction    *)
(*     with retry, QuizManager.generate_questions;                         *)
(*   - the customer-support chat (customer_chatbot): session/auth record,  *)
(*     bounded conversation history;                                       *)
(*   - the RAG orchestrator (week_3/rag_system.py): index and chat.        *)
(* Each application has its own specification (SpecQuiz, SpecChat,         *)
(* SpecRag) over its own variables; the other variables stay unchanged.    *)
(***************************************************************************)
EXTENDS Integers, Sequences, FiniteSets, TLC

VARIABLES
    \* ---- quiz generator -------------------------------------------------
    questions,        \* QuizManager.questions
    user_answers,     \* QuizManager.user_answers
    results,          \* QuizManager.results
    quiz_generated,   \* st.session_state.quiz_generated
    quiz_submitted,   \* st.session_state.quiz_submitted
    genPc,            \* position inside generate_questions / generate_mcq / generate_fill_blank
    genType,          \* question_type argument of the running generate_questions call
    genN,             \* num_questions argument of the running call
    attempt,          \* loop variable `attempt` of the retry loop
    attemptLog,       \* outcomes of chain.invoke in the current generate_* call, in order
    genOutcome,       \* how the last generate_* call ended: "none", "returned", "raised"
    genResult,        \* the question the last generate_* call returned
    genError,         \* the exception that reached the caller of generate_*: cause chain, outermost first
    genSuccess,       \* return value of the last generate_questions call: "none", "true", "false"
    lastRender,       \* what the last run of the quiz page showed: the widgets' values, and
                      \* whether Submit was clicked
    \* ---- customer-support chat ------------------------------------------
    session,          \* CustomerSupportBot.session
    history,          \* st.session_state.history
    lastMessage,      \* st.session_state.messages[-1], NoMessage when the list is empty
    show_login,       \* st.session_state.show_login
    login_prompt_reason, \* st.session_state.login_prompt_reason
    appended,         \* number of entries appended to history since it was last emptied
    verified,         \* a verification call answered "verified" since start / last logout
    mcpCalls,         \* the tool calls the last script run forwarded to the MCP server
    \* ---- RAG orchestrator (week_3) ---------------------------------------
    store,            \* the vector store's entries (metadata of each chunk), oldest first
    ragOp,            \* the last RAGSystem operation called
    ragOutcome,       \* how it ended: "returned" or "raised"
    ragResult,        \* the dict it returned
    ragStage,         \* the stage that failed in it: "none", "load", "store", "search", "llm"
    retrieved,        \* relevant_docs of the last chat call
    llmInvoked,       \* whether the last chat call invoked the LLM
    embedding_type,   \* RAGSystem.embedding_model.embedding_type
    duplicate_policy, \* what the installed chromadb does with an add of ids it holds
    ragArg,           \* the source argument (url / file name) of the last operation
    ragLoaded,        \* number of chunks the loader handed to the last index operation
    batchReport,      \* what the "Index All" handler shows in the current script run
    batchOutcomes,    \* per URL of the last "Index All" batch: did its indexing succeed
    \* ---- content loaders (week_3/loaders) ---------------------------------
    loadOp,           \* the last loader call: "news", "youtube", "pdf", "multiple"
    loadOutcome,      \* how it ended: "returned" or "raised"
    loadResult,       \* what it returned
    loadStage,        \* the step that failed in it ("none": no step did)
    leftBehind,       \* the files the call wrote that still exist when it ends
    loadSucceeded,    \* load_multiple_urls: number of URLs whose load_url returned
    loadAttempted,    \* load_multiple_urls: number of URLs whose load_url was called
    \* ---- LLM provider construction and selection ---------------------------
    provOp,           \* the last construction or selection call
    provArg,          \* its arguments and the credentials of its environment
    provOutcome,      \* how it ended: "returned" or "raised"
    provResult,       \* what it returned, or the error it raised
    \* ---- blog generator (week_4) -------------------------------------------
    blogRun,          \* the last POST /blogs: its request body and what its environment did
    blogStatus,       \* the HTTP status it was answered with (0: no request yet)
    blogBody,         \* the body of the answer
    blogTrace,        \* the nodes the graph ran for it, in order, each with whether it
                      \* called the LLM and the title the state held when it returned
    \* ---- anime recommender (Mlops/anime recommender) -----------------------
    pipeline,         \* create_app's pipeline: "unstarted", "None" or "pipeline"
    PIPELINE_STATUS,  \* the pipeline_status gauge
    animeRun,         \* the last request: endpoint, input, whether recommending raises
    animeStatus,      \* the HTTP status it was answered with (0: no request yet)
    animeBody,        \* the body of the answer
    animeCounted,     \* the status labels REQUEST_COUNT was incremented with for it
    ACTIVE_REQUESTS,  \* the active_requests gauge
    inFlight,         \* per endpoint, the requests that entered their handler and have
                      \* not been answered
    \* ---- RAG chat page (week_3/streamlit_app.py) ---------------------------
    chat_history,     \* st.session_state.chat_history
    processing_message, \* st.session_state.processing_message
    current_app_mode, \* st.session_state.current_app_mode ("None" before the first run)
    rag_mode,         \* the operation-mode radio of the sidebar
    indexed,          \* whether the collection holds any entry
    last_audio_bytes, \* st.session_state.last_audio_bytes
    uiPrompt          \* the prompt the last script run handed to the LLM, if it did

quizVars == <<questions, user_answers, results, quiz_generated, quiz_submitted,
              genPc, genType, genN, attempt, attemptLog, genOutcome, genResult,
              genError, genSuccess, lastRender>>

chatVars == <<session, history, lastMessage, show_login, login_prompt_reason,
              appended, verified, mcpCalls>>

ragVars == <<store, ragOp, ragOutcome, ragResult, ragStage, retrieved, llmInvoked,
            embedding_type, duplicate_policy, ragArg, ragLoaded, batchReport,
            batchOutcomes>>

loaderVars == <<loadOp, loadOutcome, loadResult, loadStage, leftBehind, loadSucceeded,
               loadAttempted>>

provVars == <<provOp, provArg, provOutcome, provResult>>

blogVars == <<blogRun, blogStatus, blogBody, blogTrace>>

animeVars == <<pipeline, PIPELINE_STATUS, animeRun, animeStatus, animeBody, animeCounted,
              ACTIVE_REQUESTS, inFlight>>

uiVars == <<chat_history, processing_message, current_app_mode, rag_mode, indexed,
           last_audio_bytes, uiPrompt>>

vars == <<quizVars, chatVars, ragVars, loaderVars, provVars, blogVars, animeVars, uiVars>>

notQuiz == <<chatVars, ragVars, loaderVars, provVars, blogVars, animeVars, uiVars>>
notChat == <<quizVars, ragVars, loaderVars, provVars, blogVars, animeVars, uiVars>>
notRag == <<quizVars, chatVars, loaderVars, provVars, blogVars, animeVars, uiVars>>
notLoader == <<quizVars, chatVars, ragVars, provVars, blogVars, animeVars, uiVars>>
notProv == <<quizVars, chatVars, ragVars, loaderVars, blogVars, animeVars, uiVars>>
notBlog == <<quizVars, chatVars, ragVars, loaderVars, provVars, animeVars, uiVars>>
notAnime == <<quizVars, chatVars, ragVars, loaderVars, provVars, blogVars, uiVars>>
notProvAnime == <<quizVars, chatVars, ragVars, loaderVars, blogVars, uiVars>>
notUi == <<quizVars, chatVars, ragVars, loaderVars, provVars, blogVars, animeVars>>

(***************************************************************************)
(* Bounds of the model                                                     *)
(***************************************************************************)
MaxNumQuestions == 2      \* largest num_questions explored (UI allows 1..10)
MaxTextLen == 3           \* longest question text explored, in characters
MaxExchanges == 12        \* chat exchanges explored between two "Clear Chat"
MaxStore == 3             \* most chunks held by the vector store
MaxChunks == 2            \* most chunks one loaded source is split into
MaxBatch == 2             \* most URLs in one "Index All" batch
MaxPages == 2             \* most pages of an uploaded PDF
MaxUrls == 3              \* most URLs handed to load_multiple_urls
MaxQueryLen == 2          \* most parts (words, blanks) of a recommendation query
MaxHistory == 10          \* most messages of the RAG chat page's history
MaxAnswers == 4           \* most entries of the quiz manager's user_answers
MaxInFlight == 2          \* most requests of the anime recommender served at once

(***************************************************************************)
(* Quiz generator: Mlops/STUDY-BUDDY-AI                                    *)
(***************************************************************************)
MAX_RETRIES == 3

QuestionTypes == {"Multiple Choice", "Fill in the Blank"}

\* Texts are sequences of characters; "_" is the underscore, "x" any other character.
Chars == {"_", "x"}
Texts == UNION {[1..n -> Chars] : n \in 0..MaxTextLen}

BlankMarker == <<"_", "_", "_">>

\* Python's `needle in text` for strings: needle occurs as a contiguous substring.
Contains(text, needle) ==
    \E i \in 1..(Len(text) - Len(needle) + 1) :
        \A j \in 1..Len(needle) : text[i + j - 1] = needle[j]

NoQuestion == [kind |-> "none"]
ChainRaised == [kind |-> "raise"]

\* What the MCQ chain (prompt | llm | parser) can hand back: a parsed MCQQuestion.
McqOutputs ==
    { [kind |-> "mcq", question |-> <<"x">>, options |-> o, correct_answer |-> c] :
        o \in { <<"a", "b", "c">>, <<"a", "b", "c", "d">>, <<"a", "b", "c", "d", "e">> },
        c \in {"a", "d", "e"} }

\* What the fill-in-the-blank chain can hand back: a parsed FillBlankQuestion.
FillBlankOutputs ==
    { [kind |-> "fill", question |-> t, answer |-> "ans"] : t \in Texts }

ChainOutputs(qtype) ==
    IF qtype = "Multiple Choice" THEN McqOutputs ELSE FillBlankOutputs

SeqToSet(s) == {s[i] : i \in 1..Len(s)}

\* question_chain.py:159  the MCQ structure check (TRUE = accepted)
ValidMcqLenient(q) == q.correct_answer \in SeqToSet(q.options)
ValidMcqInverted(q) ==
    ~(Len(q.options) = 4 \/ q.correct_answer \notin SeqToSet(q.options))
ValidMcq(q) ==
    ~(Len(q.options) # 4 \/ q.correct_answer \notin SeqToSet(q.options))

\* question_chain.py:190  the fill-in-the-blank structure check (TRUE = accepted)
ValidFillBlankLenient(q) == Contains(q.question, <<"_", "_">>)
ValidFillBlank(q) == ~(~Contains(q.question, BlankMarker))

Validate(qtype, q) ==
    IF qtype = "Multiple Choice" THEN ValidMcq(q) ELSE ValidFillBlank(q)

\* Exceptions: one record per exception, `bound` is the retry bound the message names (0: none).
Err(msg) == [msg |-> msg, bound |-> 0]
ErrBound(msg, n) == [msg |-> msg, bound |-> n]

ValidationError(qtype) ==
    IF qtype = "Multiple Choice" THEN Err("Invalid MCQ Structure")
    ELSE Err("Fill in blanks should contain '___'")
ChainError == Err("chain.invoke raised")

\* The exception of one failed attempt (the `e` of the inner except clause).
AttemptFailure(qtype, out) ==
    IF out = ChainRaised THEN ChainError ELSE ValidationError(qtype)

ExhaustedError(qtype) ==
    IF qtype = "Multiple Choice"
    THEN ErrBound("MCQ generation failed after MAX_RETRIES attempts", MAX_RETRIES)
    ELSE ErrBound("Fill Blank generation failed after MAX_RETRIES attempts", MAX_RETRIES)

OuterError(qtype) ==
    IF qtype = "Multiple Choice" THEN Err("MCQ generation failed")
    ELSE Err("Fill in blanks generation failed")

NoChainError(qtype) ==
    IF qtype = "Multiple Choice" THEN Err("MCQ chain could not be created")
    ELSE Err("Fill Blank chain could not be created")

\* helpers.py:38-53  the dict generate_questions stores for a generated question
StoredQuestion(qtype, q) ==
    IF qtype = "Multiple Choice"
    THEN [type |-> "MCQ", question |-> q.question, options |-> q.options,
          correct_answer |-> q.correct_answer]
    ELSE [type |-> "Fill in the blank", question |-> q.question,
          correct_answer |-> q.answer]

\* helpers.py:33  `for _ in range(num_questions)` is over once `count` questions are stored
AllGeneratedOneShort(count, n) == count >= n - 1
AllGenerated(count, n) == count = n

\* No run has shown the quiz generated last.
NoRender == [step |-> "none", answers |-> <<>>]

QuizInit ==
    /\ questions = <<>>
    /\ user_answers = <<>>
    /\ results = <<>>
    /\ quiz_generated = FALSE
    /\ quiz_submitted = FALSE
    /\ genPc = "idle"
    /\ genType = "Multiple Choice"
    /\ genN = 1
    /\ attempt = 0
    /\ attemptLog = <<>>
    /\ genOutcome = "none"
    /\ genResult = NoQuestion
    /\ genError = <<>>
    /\ genSuccess = "none"
    /\ lastRender = NoRender

\* application.py:66-78 + helpers.py:26-33: "Generate Quiz" with a topic; generate_questions
\* resets the manager and enters generate_* for the first question.
GenerateQuiz(qtype, n) ==
    /\ genPc = "idle"
    /\ quiz_submitted' = FALSE
    /\ questions' = <<>>
    /\ user_answers' = <<>>
    /\ results' = <<>>
    /\ genType' = qtype
    /\ genN' = n
    /\ genPc' = "create_chain"
    /\ genSuccess' = "none"
    /\ attempt' = 0
    /\ attemptLog' = <<>>
    /\ genOutcome' = "none"
    /\ genResult' = NoQuestion
    /\ genError' = <<>>
    /\ lastRender' = NoRender
    /\ UNCHANGED quiz_generated
    /\ UNCHANGED notQuiz

\* helpers.py:54-56 + application.py:78-79: generate_questions catches, returns False.
ReturnFalse ==
    /\ genSuccess' = "false"
    /\ quiz_generated' = FALSE
    /\ genPc' = "idle"

\* question_chain.py:146-149 / 177-180: generate_* builds its chain; a chain that could not
\* be created (create_*_chain returned None) raises inside the outer try.
CreateChain(ok) ==
    /\ genPc = "create_chain"
    /\ attemptLog' = <<>>
    /\ attempt' = 0
    /\ genResult' = NoQuestion
    /\ IF ok
       THEN /\ genPc' = "attempt"
            /\ genOutcome' = "none"
            /\ genError' = <<>>
            /\ UNCHANGED <<genSuccess, quiz_generated>>
       ELSE /\ genOutcome' = "raised"
            /\ genError' = <<OuterError(genType), NoChainError(genType)>>
            /\ ReturnFalse
    /\ UNCHANGED <<questions, user_answers, results, quiz_submitted, genType, genN,
                   lastRender>>
    /\ UNCHANGED notQuiz

\* question_chain.py:151-172 / 182-203: one iteration of the retry loop: invoke the chain,
\* validate, return the question or handle the exception; a returned question is appended by
\* generate_questions (helpers.py:36-53), which then goes on or returns True.
Attempt(out) ==
    /\ genPc = "attempt"
    /\ attempt < MAX_RETRIES
    /\ attemptLog' = Append(attemptLog, out)
    /\ IF out # ChainRaised /\ Validate(genType, out)
       THEN /\ genOutcome' = "returned"
            /\ genResult' = out
            /\ genError' = <<>>
            /\ questions' = Append(questions, StoredQuestion(genType, out))
            /\ attempt' = attempt
            /\ IF AllGenerated(Len(questions) + 1, genN)
               THEN /\ genSuccess' = "true"
                    /\ quiz_generated' = TRUE
                    /\ genPc' = "idle"
               ELSE /\ genPc' = "create_chain"
                    /\ UNCHANGED <<genSuccess, quiz_generated>>
       ELSE IF attempt = MAX_RETRIES - 1
            THEN /\ genOutcome' = "raised"
                 /\ genResult' = NoQuestion
                 /\ genError' = <<OuterError(genType), ExhaustedError(genType),
                                  AttemptFailure(genType, out)>>
                 /\ attempt' = attempt
                 /\ ReturnFalse
                 /\ UNCHANGED questions
            ELSE /\ attempt' = attempt + 1
                 /\ UNCHANGED <<genPc, genOutcome, genResult, genError, genSuccess,
                                quiz_generated, questions>>
    /\ UNCHANGED <<user_answers, results, quiz_submitted, genType, genN, lastRender>>
    /\ UNCHANGED notQuiz

QuizNext ==
    \/ \E qtype \in QuestionTypes, n \in 1..MaxNumQuestions : GenerateQuiz(qtype, n)
    \/ \E ok \in BOOLEAN : CreateChain(ok)
    \/ \E out \in ChainOutputs(genType) \cup {ChainRaised} : Attempt(out)

(***************************************************************************)
(* The quiz page below the sidebar: application.py:81-88 with attempt_quiz *)
(* and evaluate_quiz.  The run that generated a quiz goes on to line 81    *)
(* too: RenderQuiz is then its second half.                                *)
(***************************************************************************)
\* What the user can have typed into a text input: the answer, the answer in other case and
\* with blanks around it, another word, nothing.
TypedAnswers == {"ans", " Ans ", "other", ""}

\* str.strip().lower() on an answer
StripLower(text) == IF text = " Ans " THEN "ans" ELSE text

\* helpers.py:66-78  the values the widgets of a question can hold: one of the options of
\* the radio, or the text of the input
WidgetValues(q) == IF q.type = "MCQ" THEN SeqToSet(q.options) ELSE TypedAnswers

\* The values the widgets of the page can hold, one per question.
AnswerSheets ==
    {sheet \in [1..Len(questions) -> UNION {WidgetValues(questions[i]) :
                                              i \in 1..Len(questions)}] :
        \A i \in 1..Len(questions) : sheet[i] \in WidgetValues(questions[i])}

\* helpers.py:60-78  attempt_quiz: user_answers after it, the widgets holding `sheet`
attempt_quiz(answers, sheet) == answers \o sheet

\* helpers.py:94-100  is_correct
IsCorrect(q, user_ans) ==
    IF q.type = "MCQ" THEN user_ans = q.correct_answer
    ELSE StripLower(user_ans) = StripLower(q.correct_answer)

\* helpers.py:80-102  evaluate_quiz: results, from zip(self.questions, self.user_answers)
evaluate_quiz(qs, answers) ==
    [i \in 1..(IF Len(qs) < Len(answers) THEN Len(qs) ELSE Len(answers)) |->
        [question_number |-> i, question |-> qs[i].question, question_type |-> qs[i].type,
         user_answer |-> answers[i], correct_answer |-> qs[i].correct_answer,
         is_correct |-> IsCorrect(qs[i], answers[i])]]

\* application.py:81  whether the run shows the quiz
ShowsQuiz == genPc = "idle" /\ quiz_generated /\ questions # <<>>

\* application.py:81-83  a run that shows the quiz, Submit not clicked
RenderQuiz(sheet) ==
    /\ ShowsQuiz
    /\ Len(user_answers) + Len(sheet) <= MaxAnswers
    /\ user_answers' = attempt_quiz(user_answers, sheet)
    /\ lastRender' = [step |-> "render", answers |-> sheet]
    /\ UNCHANGED <<questions, results, quiz_generated, quiz_submitted, genPc, genType, genN,
                   attempt, attemptLog, genOutcome, genResult, genError, genSuccess>>
    /\ UNCHANGED notQuiz

\* application.py:81-88  the run of a click on Submit Quiz
SubmitQuiz(sheet) ==
    /\ ShowsQuiz
    /\ Len(user_answers) + Len(sheet) <= MaxAnswers
    /\ user_answers' = attempt_quiz(user_answers, sheet)
    /\ results' = evaluate_quiz(questions, user_answers')
    /\ quiz_submitted' = TRUE
    /\ lastRender' = [step |-> "submit", answers |-> sheet]
    /\ UNCHANGED <<questions, quiz_generated, genPc, genType, genN, attempt, attemptLog,
                   genOutcome, genResult, genError, genSuccess>>
    /\ UNCHANGED notQuiz

\* The questions the chains hand back on the page explored: one well-formed question of
\* each type, or an exception.
PageOutputs(qtype) ==
    IF qtype = "Multiple Choice"
    THEN {[kind |-> "mcq", question |-> <<"x">>, options |-> <<"a", "b", "c", "d">>,
           correct_answer |-> "d"]}
    ELSE {[kind |-> "fill", question |-> BlankMarker, answer |-> "ans"]}

QuizPageNext ==
    \/ \E qtype \in QuestionTypes, n \in 1..MaxNumQuestions : GenerateQuiz(qtype, n)
    \/ \E ok \in BOOLEAN : CreateChain(ok)
    \/ \E out \in PageOutputs(genType) \cup {ChainRaised} : Attempt(out)
    \/ \E sheet \in AnswerSheets : RenderQuiz(sheet)
    \/ \E sheet \in AnswerSheets : SubmitQuiz(sheet)

(***************************************************************************)
(* Customer-support chat: customer_chatbot                                 *)
(*                                                                         *)
(* Texts the code parses (the server's verification reply) are sequences   *)
(* of lines, a line a sequence of tokens; `in`, split and strip act on     *)
(* them as on the strings.  Texts the code only stores and passes on (the  *)
(* history's contents) are represented by the ordinal of their append.     *)
(***************************************************************************)
HISTORY_LIMIT == 20

None == <<"None">>
NoMessage == [role |-> "none", content |-> "none"]

InitialSession ==
    [authenticated |-> FALSE, customer_id |-> None, customer_name |-> None, email |-> None]

Emails == {<<"donald@example.com">>}
Pins == {<<"1234">>}

\* app.py:199-202  quick_actions, and what the user can type
PromptKinds == {"quick", "order", "other"}

\* app.py:54-57  check_order_query
check_order_query(kind) == kind = "order"

\* Replies of the server's verify_customer_pin tool.  `ok` is the server's verdict.
\* The accepted reply in the layout app.py:45 documents:
\*     "✓ Customer verified: Donald Garcia" / "Customer ID: c-1"
ReplyVerifiedLayout ==
    [ok |-> TRUE,
     lines |-> << <<"check", "Customer", "verified", ":", "Donald">>,
                  <<"Customer", "ID", ":", "c-1">> >>]
\* The accepted reply in the layout chatbot.py:145-155 parses:
\*     "Customer: Donald" / "ID: c-1" / "Name: Donald"
ReplyCustomerLayout ==
    [ok |-> TRUE,
     lines |-> << <<"Customer", ":", "Donald">>,
                  <<"ID", ":", "c-1">>,
                  <<"Name", ":", "Donald">> >>]
ReplyRejected ==
    [ok |-> FALSE, lines |-> << <<"Invalid", "email", "or", "PIN">> >>]
ReplyError == [ok |-> FALSE, lines |-> << <<"raise">> >>]
\* An accepted reply that names the customer and gives no id:
\*     "✓ Customer verified: Donald Garcia"
ReplyVerifiedNoId ==
    [ok |-> TRUE, lines |-> << <<"check", "Customer", "verified", ":", "Donald">> >>]

VerifyReplies ==
    {ReplyVerifiedLayout, ReplyCustomerLayout, ReplyRejected, ReplyError, ReplyVerifiedNoId}

\* str.lower() on a token
Lower(tok) ==
    CASE tok = "Customer" -> "customer"
      [] tok = "ID" -> "id"
      [] tok = "Name" -> "name"
      [] tok = "Invalid" -> "invalid"
      [] tok = "PIN" -> "pin"
      [] tok = "Donald" -> "donald"
      [] OTHER -> tok
LowerLine(line) == [i \in 1..Len(line) |-> Lower(line[i])]

\* `needle in result` for a needle without a newline: some line contains it
ResultContains(lines, needle) == \E i \in 1..Len(lines) : Contains(lines[i], needle)
ResultLowerContains(lines, needle) ==
    \E i \in 1..Len(lines) : Contains(LowerLine(lines[i]), needle)

Occurrences(line, needle) ==
    {i \in 1..(Len(line) - Len(needle) + 1) :
        \A j \in 1..Len(needle) : line[i + j - 1] = needle[j]}
MaxOf(S) == CHOOSE x \in S : \A y \in S : y <= x
MinOf(S) == CHOOSE x \in S : \A y \in S : x <= y

\* line.split(needle)[-1].strip(): what follows the last occurrence of needle
AfterLast(line, needle) ==
    IF Occurrences(line, needle) = {} THEN line
    ELSE SubSeq(line, MaxOf(Occurrences(line, needle)) + Len(needle), Len(line))

\* line.split(needle)[1].strip(): what lies between the first occurrence and the next one
AfterFirst(line, needle) ==
    LET occ == Occurrences(line, needle)
        first == MinOf(occ)
        later == {i \in occ : i >= first + Len(needle)}
    IN  IF later = {} THEN SubSeq(line, first + Len(needle), Len(line))
        ELSE SubSeq(line, first + Len(needle), MinOf(later) - 1)

RECURSIVE LoginParse(_, _, _)
\* app.py:41-46  the loop over the reply's lines in do_login
LoginParse(sess, lines, i) ==
    IF i > Len(lines) THEN sess
    ELSE LET line == lines[i]
             s1 == IF Contains(line, <<"Customer", "ID", ":">>)
                   THEN [sess EXCEPT !.customer_id = AfterLast(line, <<"Customer", "ID", ":">>)]
                   ELSE sess
             s2 == IF Contains(LowerLine(line), <<"verified", ":">>)
                   THEN [s1 EXCEPT !.customer_name = AfterLast(line, <<":">>)]
                   ELSE s1
         IN  LoginParse(s2, lines, i + 1)

\* app.py:36  the test do_login applies to the reply
LoginAccepts(lines) ==
    \/ ResultLowerContains(lines, <<"verified">>)
    \/ ResultContains(lines, <<"Customer", "ID", ":">>)

\* app.py:32-51  do_login: [success, session]
do_login(sess, email, reply) ==
    IF reply = ReplyError THEN [success |-> FALSE, session |-> sess]
    ELSE IF LoginAccepts(reply.lines)
         THEN [success |-> TRUE,
               session |-> LoginParse([sess EXCEPT !.authenticated = TRUE, !.email = email],
                                      reply.lines, 1)]
         ELSE [success |-> FALSE, session |-> sess]

RECURSIVE ToolParse(_, _, _)
\* chatbot.py:150-155  the loop over the reply's lines in _execute_tool
ToolParse(sess, lines, i) ==
    IF i > Len(lines) THEN sess
    ELSE LET line == lines[i]
             s1 == IF Contains(line, <<"ID", ":">>)
                   THEN [sess EXCEPT !.customer_id = AfterFirst(line, <<"ID", ":">>)]
                   ELSE sess
             s2 == IF Contains(line, <<"Name", ":">>)
                   THEN [s1 EXCEPT !.customer_name = AfterFirst(line, <<"Name", ":">>)]
                   ELSE s1
         IN  ToolParse(s2, lines, i + 1)

\* chatbot.py:145  the test _execute_tool applies to the reply
ToolAccepts(lines) == ResultContains(lines, <<"Customer", ":">>)

ToolNames == {"list_products", "search_products", "get_product", "verify_customer",
              "list_orders", "get_order", "unknown_tool"}

\* chatbot.py:131-170  _execute_tool: the session it leaves
ExecuteTool(sess, tool, email, reply) ==
    IF tool = "verify_customer" /\ reply # ReplyError /\ ToolAccepts(reply.lines)
    THEN ToolParse([sess EXCEPT !.authenticated = TRUE, !.email = email], reply.lines, 1)
    ELSE sess

\* A tool call as the MCP server receives it, with the session's flag at that moment.
McpCall(tool, args, sess) ==
    [tool |-> tool, args |-> args, authenticated |-> sess.authenticated]

\* mcp_client.py:91-98  list_orders: the arguments it sends (status is never passed)
ListOrdersArgs(customer_id) ==
    IF customer_id = None \/ customer_id = <<>> THEN <<>>
    ELSE << <<"customer_id", customer_id>> >>

\* chatbot.py:158-161  the guard of list_orders
OrdersGuarded(sess) == ~sess.authenticated

\* chatbot.py:131-170  _execute_tool: the calls it forwards to the MCP server
Forwards(sess, tool, email) ==
    CASE tool \in {"list_products", "search_products", "get_product"} ->
             <<McpCall(tool, <<>>, sess)>>
      [] tool = "verify_customer" ->
             <<McpCall("verify_customer_pin", << <<"email", email>> >>, sess)>>
      [] tool = "list_orders" ->
             IF OrdersGuarded(sess) THEN <<>>
             ELSE <<McpCall("list_orders", ListOrdersArgs(sess.customer_id), sess)>>
      [] tool = "get_order" ->
             <<McpCall("get_order", << <<"order_id", "order">> >>, sess)>>
      [] OTHER -> <<>>

\* What the LLM does with one message: the first completion raises, answers directly, or
\* picks a tool; the second completion (tools whose result the LLM formats) raises or not.
LlmChoices ==
    [first : {"raise", "answer"} \cup ToolNames, second : {"raise", "answer"}]

FormattedByCode == {"list_products", "search_products", "list_orders", "get_order"}

\* chatbot.py:260-317  CustomerSupportBot.chat: [raised, session, verifiedNow, calls]
BotChat(sess, llm, email, reply) ==
    IF llm.first = "raise"
    THEN [raised |-> TRUE, session |-> sess, verifiedNow |-> FALSE, calls |-> <<>>]
    ELSE IF llm.first = "answer"
         THEN [raised |-> FALSE, session |-> sess, verifiedNow |-> FALSE, calls |-> <<>>]
         ELSE [raised |-> llm.first \notin FormattedByCode /\ llm.second = "raise",
               session |-> ExecuteTool(sess, llm.first, email, reply),
               verifiedNow |-> llm.first = "verify_customer" /\ reply.ok,
               calls |-> Forwards(sess, llm.first, email)]

UserTurn(n) == [role |-> "user", content |-> n]
AssistantTurn(n) == [role |-> "assistant", content |-> n]

\* app.py:192-193  keep the last HISTORY_LIMIT entries
Truncate(h) ==
    IF Len(h) > HISTORY_LIMIT THEN SubSeq(h, Len(h) - HISTORY_LIMIT + 1, Len(h)) ELSE h

\* app.py:188-189 / 211-212  the two appends of one exchange
AppendExchange(h, n) == Append(Append(h, UserTurn(n + 1)), AssistantTurn(n + 2))

ChatInit ==
    /\ session = InitialSession
    /\ history = <<>>
    /\ lastMessage = NoMessage
    /\ show_login = FALSE
    /\ login_prompt_reason = "None"
    /\ appended = 0
    /\ verified = FALSE
    /\ mcpCalls = <<>>

UserMessage(kind) == [role |-> "user", content |-> kind]
AssistantMessage == [role |-> "assistant", content |-> "reply"]

\* app.py:198-213  the end of every script run: a pending quick-action message (the last
\* message is a user message with a quick-action text) is answered; history is not truncated.
\* `sess`, `last`, `ver` are the values the earlier part of the run left, `made` the calls
\* it forwarded to the MCP server.
PendingQuickAction(sess, last, ver, made, llm, email, reply) ==
    IF last.role = "user" /\ last.content = "quick"
    THEN LET r == BotChat(sess, llm, email, reply)
         IN  /\ appended < 2 * MaxExchanges
             /\ mcpCalls' = made \o r.calls
             /\ session' = r.session
             /\ verified' = (ver \/ r.verifiedNow)
             /\ IF r.raised
                THEN /\ lastMessage' = last
                     /\ UNCHANGED <<history, appended>>
                ELSE /\ history' = AppendExchange(history, appended)
                     /\ appended' = appended + 2
                     /\ lastMessage' = AssistantMessage
    ELSE /\ session' = sess
         /\ verified' = ver
         /\ lastMessage' = last
         /\ mcpCalls' = made
         /\ UNCHANGED <<history, appended>>

\* app.py:88-91  "Login" button
LoginButton(llm, email, reply) ==
    /\ UNCHANGED notChat
    /\ ~session.authenticated
    /\ show_login' = TRUE
    /\ login_prompt_reason' = "None"
    /\ PendingQuickAction(session, lastMessage, verified, <<>>, llm, email, reply)

\* app.py:72-86  "Logout" button
LogoutButton ==
    /\ UNCHANGED notChat
    /\ session.authenticated
    /\ session' = InitialSession
    /\ verified' = FALSE
    /\ mcpCalls' = <<>>
    /\ lastMessage' = AssistantMessage
    /\ UNCHANGED <<history, appended, show_login, login_prompt_reason>>

\* app.py:95-109  a "Browse Products" button, and the rerun it triggers
QuickActionButton(llm, email, reply) ==
    /\ UNCHANGED notChat
    /\ PendingQuickAction(session, UserMessage("quick"), verified, <<>>, llm, email, reply)
    /\ UNCHANGED <<show_login, login_prompt_reason>>

\* app.py:112-115  "Clear Chat"
ClearChat ==
    /\ UNCHANGED notChat
    /\ lastMessage' = NoMessage
    /\ history' = <<>>
    /\ appended' = 0
    /\ mcpCalls' = <<>>
    /\ UNCHANGED <<session, verified, show_login, login_prompt_reason>>

\* app.py:136-149  the login form submitted with email and PIN
LoginSubmit(email, loginReply, llm, reply) ==
    /\ UNCHANGED notChat
    /\ show_login
    /\ LET r == do_login(session, email, loginReply)
           ver == verified \/ loginReply.ok
           made == <<McpCall("verify_customer_pin", << <<"email", email>> >>, session)>>
       IN  IF r.success
           THEN /\ show_login' = FALSE
                /\ PendingQuickAction(r.session, AssistantMessage, ver, made, llm, email,
                                      reply)
                /\ UNCHANGED login_prompt_reason
           ELSE /\ PendingQuickAction(r.session, lastMessage, ver, made, llm, email, reply)
                /\ UNCHANGED <<show_login, login_prompt_reason>>

\* app.py:151-154  the login form cancelled
LoginCancel(llm, email, reply) ==
    /\ UNCHANGED notChat
    /\ show_login
    /\ show_login' = FALSE
    /\ login_prompt_reason' = "None"
    /\ PendingQuickAction(session, lastMessage, verified, <<>>, llm, email, reply)

\* app.py:164-196  a typed prompt
ChatInput(kind, llm, email, reply) ==
    /\ UNCHANGED notChat
    /\ IF check_order_query(kind) /\ ~session.authenticated
       THEN /\ show_login' = TRUE
            /\ login_prompt_reason' = "Please login to view your orders"
            /\ lastMessage' = AssistantMessage
            /\ mcpCalls' = <<>>
            /\ UNCHANGED <<session, verified, history, appended>>
       ELSE LET r == BotChat(session, llm, email, reply)
            IN  /\ appended < 2 * MaxExchanges
                /\ mcpCalls' = r.calls
                /\ session' = r.session
                /\ verified' = (verified \/ r.verifiedNow)
                /\ UNCHANGED <<show_login, login_prompt_reason>>
                /\ IF r.raised
                   THEN /\ lastMessage' = UserMessage(kind)
                        /\ UNCHANGED <<history, appended>>
                   ELSE /\ history' = Truncate(AppendExchange(history, appended))
                        /\ appended' = appended + 2
                        /\ lastMessage' = AssistantMessage

\* What the LLM and the server do in one run of chat: the second completion is read only
\* for a tool whose result the LLM formats, the server's verification reply only for
\* verify_customer; where they are not read they are left at one value.
BotRuns ==
    {r \in [llm : LlmChoices, reply : VerifyReplies] :
        /\ r.llm.first \in {"raise", "answer"} \cup FormattedByCode => r.llm.second = "answer"
        /\ r.llm.first # "verify_customer" => r.reply = ReplyError}

ChatNext ==
    \/ \E r \in BotRuns, e \in Emails : LoginButton(r.llm, e, r.reply)
    \/ LogoutButton
    \/ \E r \in BotRuns, e \in Emails : QuickActionButton(r.llm, e, r.reply)
    \/ ClearChat
    \/ \E e \in Emails, loginReply \in VerifyReplies, r \in BotRuns :
          LoginSubmit(e, loginReply, r.llm, r.reply)
    \/ \E r \in BotRuns, e \in Emails : LoginCancel(r.llm, e, r.reply)
    \/ \E kind \in PromptKinds, r \in BotRuns, e \in Emails :
          ChatInput(kind, r.llm, e, r.reply)

(***************************************************************************)
(* RAG orchestrator: week_3/rag_system.py                                  *)
(***************************************************************************)
SEARCH_K == 4

NewsUrls == {"news-1"}
NewsTitles == {"title-a", "title-b"}     \* the title an article carries when it is loaded
VideoUrls == {"video-1"}
VideoTitles == {"title-a"}
PdfNames == {"file-1.pdf"}

\* embeddings.py:6-8  EmbeddingType: "chroma_default" uses the chromadb collection directly,
\* "openai" the LangChain Chroma wrapper
EmbeddingTypes == {"chroma_default", "openai"}

\* A loaded chunk (a Document): its metadata source and title, and its page_content.
Chunk(source, title, content) == [source |-> source, title |-> title, content |-> content]

\* n chunks of one loaded source: every chunk carries the source and the title; chunk i
\* holds the i-th span of the text (news_loader.py:66-85, youtube_loader.py:148-162,
\* pdf_loader.py:89-106)
LoadedDocuments(source, title, text, n) ==
    [i \in 1..n |-> Chunk(source, title, <<text, i>>)]

\* news_loader.py:76  page_content = f"Title: {title}\n\n{text}"
NewsText(title) == <<"Title:", title, "article text">>

\* An entry of the vector store: the metadata of a chunk under the entry's id.
Entry(id, doc) == [id |-> id, source |-> doc.source, title |-> doc.title]

\* The Document a query hands back for an entry.
Document(e) == [source |-> e.source, title |-> e.title]

\* rag_system.py:229  ids = [f"doc_{i}_{hash(doc.page_content)}" ...]: within one process
\* hash() is a function of the content
ChromaDefaultIds(docs) == [i \in 1..Len(docs) |-> <<"doc", i - 1, docs[i].content>>]

StoredIds(st) == {st[i].id : i \in 1..Len(st)}

\* rag_system.py:240  add_documents without ids: the wrapper draws a uuid for each document.
\* A uuid is opaque and distinct from every other; the model names it by the position of
\* its entry in the collection, so that collections differing only in the values of their
\* uuids are one state.
Renumbered(st) == [i \in 1..Len(st) |-> [st[i] EXCEPT !.id = <<"uuid", i>>]]

\* What the chromadb collection does with an add that names ids it already holds: it skips
\* those records, or it rejects the whole add with an error (the library's versions differ).
DuplicatePolicies == {"ignore", "raise"}

\* rag_system.py:225-240  _add_documents: [store, raised]
AddDocuments(st, docs, etype, onDuplicate) ==
    IF etype = "chroma_default"
    THEN LET ids == ChromaDefaultIds(docs)
             entries == [i \in 1..Len(docs) |-> Entry(ids[i], docs[i])]
             fresh(e) == e.id \notin StoredIds(st)
         IN  IF onDuplicate = "raise" /\ \E i \in 1..Len(docs) : ids[i] \in StoredIds(st)
             THEN [store |-> st, raised |-> TRUE]
             ELSE [store |-> st \o SelectSeq(entries, fresh), raised |-> FALSE]
    ELSE [store |-> Renumbered(st \o [i \in 1..Len(docs) |-> Entry(<<"uuid">>, docs[i])]),
          raised |-> FALSE]

NoResult == [none |-> TRUE]

IndexOps == {"index_url", "index_youtube_url", "index_pdf"}

\* rag_system.py:114-140, 152-180, 193-223: the stages the try block of index_* encloses
IndexTryCovers == {"load", "store"}
\* rag_system.py:284-372: the stages the try block of chat encloses
ChatTryCoversLlmOnly == {"llm"}
ChatTryCovers == {"search", "llm"}

ErrorPrefix(op) ==
    CASE op = "index_url" -> "Error indexing URL"
      [] op = "index_youtube_url" -> "Error indexing YouTube video"
      [] op = "index_pdf" -> "Error indexing PDF"
      [] OTHER -> "Error in chat"

NoContentMessage(op) ==
    CASE op = "index_url" -> "No content extracted from URL"
      [] op = "index_youtube_url" -> "No content extracted from YouTube video"
      [] OTHER -> "No content extracted from PDF"

\* rag_system.py:135-140, 175-180, 218-223: the except clause of index_*
IndexFailure(op) ==
    [success |-> FALSE, message |-> ErrorPrefix(op), num_chunks |-> 0]

\* rag_system.py:118-123, 156-161, 197-202
IndexNoContent(op) ==
    [success |-> FALSE, message |-> NoContentMessage(op), num_chunks |-> 0]

\* rag_system.py:128-133, 166-173, 210-216
IndexSuccess(op, docs) ==
    [success |-> TRUE, message |-> "Successfully indexed", num_chunks |-> Len(docs),
     title |-> docs[1].title]

\* rag_system.py:367-372: the except clause of chat
ChatFailure == [success |-> FALSE, summary |-> "", error |-> "Error in chat"]

\* rag_system.py:292-296
ChatNoDocuments ==
    [success |-> FALSE, summary |-> "", error |-> "No relevant documents found"]

\* rag_system.py:291  `if not relevant_docs`
NoDocumentsNever(docs) == FALSE
NoDocuments(docs) == Len(docs) = 0

RECURSIVE ExtractReferencesNoDedup(_, _, _)
ExtractReferencesNoDedup(docs, i, seen) ==
    IF i > Len(docs) THEN <<>>
    ELSE IF docs[i].source # "None"
         THEN <<[url |-> docs[i].source, title |-> docs[i].title]>>
              \o ExtractReferencesNoDedup(docs, i + 1, seen)
         ELSE ExtractReferencesNoDedup(docs, i + 1, seen)

RECURSIVE ExtractReferences(_, _, _)
\* rag_system.py:345-358: the loop over relevant_docs from position i on, with seen_sources
ExtractReferences(docs, i, seen) ==
    IF i > Len(docs) THEN <<>>
    ELSE IF docs[i].source # "None" /\ docs[i].source \notin seen
         THEN <<[url |-> docs[i].source, title |-> docs[i].title]>>
              \o ExtractReferences(docs, i + 1, seen \cup {docs[i].source})
         ELSE ExtractReferences(docs, i + 1, seen)

\* rag_system.py:360-365
ChatSuccess(docs) ==
    [success |-> TRUE, summary |-> "generated answer", num_chunks_retrieved |-> Len(docs),
     references |-> ExtractReferences(docs, 1, {})]

\* rag_system.py:242-270  search(query, k): what the vector store can answer: the k nearest
\* entries, or all of them when it holds fewer, in the order of the similarity ranking.
SearchResults(k) ==
    LET m == IF Len(store) < k THEN Len(store) ELSE k
    IN  {[i \in 1..m |-> Document(store[pick[i]])] :
            pick \in {f \in [1..m -> 1..Len(store)] :
                         \A a, b \in 1..m : a # b => f[a] # f[b]}}

\* rag_system.py:457-461 / 478-482
DeleteDone(count) ==
    [success |-> TRUE, message |-> "Deleted chunks from article", chunks_deleted |-> count]

\* rag_system.py:463-466 / 484-487
DeleteNotFound == [success |-> FALSE, message |-> "Article not found in index"]

\* rag_system.py:489-494: the except clause of delete_article
DeleteFailure ==
    [success |-> FALSE, error |-> "store error", message |-> "Error deleting article"]

\* rag_system.py:452 / 473  `metadata.get('source') == url`
BelongsToByTitle(entry, url) == entry.title = url
BelongsTo(entry, url) == entry.source = url

\* rag_system.py:448-453 / 470-474  ids_to_delete
IdsToDelete(st, url) == {st[i].id : i \in {k \in 1..Len(st) : BelongsTo(st[k], url)}}

\* collection.delete(ids=...) / vector_store.delete(ids=...)
DeleteIds(st, ids, etype) ==
    LET kept(e) == e.id \notin ids
    IN  IF etype = "chroma_default" THEN SelectSeq(st, kept)
        ELSE Renumbered(SelectSeq(st, kept))

NoBatch == [level |-> "none"]

RagInit ==
    /\ store = <<>>
    /\ ragOp = "none"
    /\ ragOutcome = "returned"
    /\ ragResult = NoResult
    /\ ragStage = "none"
    /\ retrieved = <<>>
    /\ llmInvoked = FALSE
    /\ embedding_type \in EmbeddingTypes
    /\ duplicate_policy \in
          IF embedding_type = "chroma_default" THEN DuplicatePolicies ELSE {"ignore"}
    /\ ragArg = "none"
    /\ ragLoaded = 0
    /\ batchReport = NoBatch
    /\ batchOutcomes = <<>>

\* The body shared by index_url, index_youtube_url and index_pdf: load, check, add, report.
\* `docs` is what the loader returns when it does not raise; `failing` is the stage that
\* raises ("none": no stage does).  The value: [store, outcome, result, stage, loaded].
IndexEffect(op, st, etype, onDuplicate, docs, failing) ==
    IF failing # "none" /\ failing \notin IndexTryCovers
    THEN [store |-> st, outcome |-> "raised", result |-> NoResult, stage |-> failing,
          loaded |-> 0]
    ELSE IF failing = "load"
    THEN [store |-> st, outcome |-> "returned", result |-> IndexFailure(op),
          stage |-> "load", loaded |-> 0]
    ELSE IF Len(docs) = 0
    THEN [store |-> st, outcome |-> "returned", result |-> IndexNoContent(op),
          stage |-> "none", loaded |-> 0]
    ELSE IF failing = "store"
    THEN [store |-> st, outcome |-> "returned", result |-> IndexFailure(op),
          stage |-> "store", loaded |-> Len(docs)]
    ELSE LET a == AddDocuments(st, docs, etype, onDuplicate)
         IN  IF a.raised
             THEN [store |-> st, outcome |-> "returned", result |-> IndexFailure(op),
                   stage |-> "duplicate_ids", loaded |-> Len(docs)]
             ELSE [store |-> a.store, outcome |-> "returned",
                   result |-> IndexSuccess(op, docs), stage |-> "none",
                   loaded |-> Len(docs)]

Index(op, source, title, text, n, failing) ==
    LET r == IndexEffect(op, store, embedding_type, duplicate_policy,
                         LoadedDocuments(source, title, text, n), failing)
    IN  /\ Len(r.store) <= MaxStore
        /\ ragOp' = op
        /\ ragArg' = source
        /\ ragLoaded' = r.loaded
        /\ ragStage' = r.stage
        /\ ragOutcome' = r.outcome
        /\ ragResult' = r.result
        /\ store' = r.store
        /\ retrieved' = <<>>
        /\ llmInvoked' = FALSE
        /\ batchReport' = NoBatch
        /\ batchOutcomes' = <<>>
        /\ UNCHANGED <<embedding_type, duplicate_policy>>
        /\ UNCHANGED notRag

\* rag_system.py:104-140  index_url (the news loader raises on an empty article)
IndexUrl(url, title, n, failing) ==
    Index("index_url", url, title, NewsText(title), n, failing)

\* rag_system.py:142-180  index_youtube_url
IndexYoutubeUrl(url, title, n, failing) ==
    Index("index_youtube_url", url, title, <<"transcript">>, n, failing)

\* rag_system.py:182-223  index_pdf (source and title are the file name)
IndexPdf(filename, n, failing) ==
    Index("index_pdf", filename, filename, <<"pages">>, n, failing)

\* rag_system.py:434-494  delete_article; `failing` = "store": the collection's get or
\* delete raises
DeleteArticle(url, failing) ==
    /\ ragOp' = "delete_article"
    /\ ragArg' = url
    /\ ragLoaded' = 0
    /\ ragOutcome' = "returned"
    /\ ragStage' = failing
    /\ retrieved' = <<>>
    /\ llmInvoked' = FALSE
    /\ IF failing = "store"
       THEN /\ ragResult' = DeleteFailure
            /\ UNCHANGED store
       ELSE LET ids_to_delete == IdsToDelete(store, url)
            IN  IF ids_to_delete # {}
                THEN /\ store' = DeleteIds(store, ids_to_delete, embedding_type)
                     /\ ragResult' = DeleteDone(Cardinality(ids_to_delete))
                ELSE /\ ragResult' = DeleteNotFound
                     /\ UNCHANGED store
    /\ batchReport' = NoBatch
    /\ batchOutcomes' = <<>>
    /\ UNCHANGED <<embedding_type, duplicate_policy>>
    /\ UNCHANGED notRag

\* rag_system.py:272-372  chat
Chat(docs, failing) ==
    /\ ragOp' = "chat"
    /\ ragStage' = failing
    /\ IF failing = "search"
       THEN /\ retrieved' = <<>>
            /\ llmInvoked' = FALSE
            /\ IF "search" \in ChatTryCovers
               THEN ragOutcome' = "returned" /\ ragResult' = ChatFailure
               ELSE ragOutcome' = "raised" /\ ragResult' = NoResult
       ELSE /\ retrieved' = docs
            /\ IF NoDocuments(docs)
               THEN /\ ragOutcome' = "returned"
                    /\ ragResult' = ChatNoDocuments
                    /\ llmInvoked' = FALSE
                    /\ failing = "none"
               ELSE /\ llmInvoked' = TRUE
                    /\ IF failing = "llm"
                       THEN IF "llm" \in ChatTryCovers
                            THEN ragOutcome' = "returned" /\ ragResult' = ChatFailure
                            ELSE ragOutcome' = "raised" /\ ragResult' = NoResult
                       ELSE ragOutcome' = "returned" /\ ragResult' = ChatSuccess(docs)
    /\ ragArg' = "none"
    /\ ragLoaded' = 0
    /\ batchReport' = NoBatch
    /\ batchOutcomes' = <<>>
    /\ UNCHANGED <<store, embedding_type, duplicate_policy>>
    /\ UNCHANGED notRag

StageFailures == {"none", "load", "store"}

\* One line of the "Index All" text area, with what loading and storing it will meet.
BatchItems ==
    [url : NewsUrls, title : {"title-a"}, n : {1}, failing : {"none", "load"}]
Batches == UNION {[1..k -> BatchItems] : k \in 0..MaxBatch}

\* streamlit_app.py:817-818  `if result["success"]: success_count += 1`
CountedAlways(result) == TRUE
Counted(result) == result.success

RECURSIVE IndexAllLoop(_, _, _)
\* streamlit_app.py:811-822  the loop over urls from position i on; acc holds the store,
\* success_count, the per-URL outcomes and the last index_url call
IndexAllLoop(items, i, acc) ==
    IF i > Len(items) THEN acc
    ELSE LET it == items[i]
             r == IndexEffect("index_url", acc.store, embedding_type, duplicate_policy,
                              LoadedDocuments(it.url, it.title, NewsText(it.title), it.n),
                              it.failing)
         IN  IndexAllLoop(items, i + 1,
                 [store |-> r.store,
                  success_count |-> IF Counted(r.result) THEN acc.success_count + 1
                                    ELSE acc.success_count,
                  outcomes |-> Append(acc.outcomes, r.stage = "none" /\ r.loaded > 0),
                   arg |-> it.url, last |-> r])

\* streamlit_app.py:827-834  what the handler shows after the loop
BatchReport(success_count, total) ==
    IF success_count = total
    THEN [level |-> "success", success_count |-> success_count, total |-> total,
          some_failed |-> FALSE]
    ELSE IF success_count > 0
    THEN [level |-> "warning", success_count |-> success_count, total |-> total,
          some_failed |-> TRUE]
    ELSE [level |-> "error", success_count |-> 0, total |-> total, some_failed |-> TRUE]

\* streamlit_app.py:800-834  the "Index All" button
IndexAll(items) ==
    /\ IF Len(items) = 0
       THEN /\ batchReport' = [level |-> "enter a URL"]
            /\ batchOutcomes' = <<>>
            /\ UNCHANGED <<store, ragOp, ragArg, ragLoaded, ragStage, ragOutcome,
                           ragResult, retrieved, llmInvoked>>
       ELSE LET acc == IndexAllLoop(items, 1,
                           [store |-> store, success_count |-> 0, outcomes |-> <<>>])
            IN  /\ Len(acc.store) <= MaxStore
                /\ store' = acc.store
                /\ batchReport' = BatchReport(acc.success_count, Len(items))
                /\ batchOutcomes' = acc.outcomes
                /\ ragOp' = "index_url"
                /\ ragArg' = acc.arg
                /\ ragLoaded' = acc.last.loaded
                /\ ragStage' = acc.last.stage
                /\ ragOutcome' = acc.last.outcome
                /\ ragResult' = acc.last.result
                /\ retrieved' = <<>>
                /\ llmInvoked' = FALSE
    /\ UNCHANGED <<embedding_type, duplicate_policy>>
    /\ UNCHANGED notRag

\* The sources delete_article is called with: the indexed ones and one never indexed.
DeleteTargets == NewsUrls \cup VideoUrls \cup PdfNames \cup {"never-indexed"}

RagNext ==
    \/ \E url \in NewsUrls, title \in NewsTitles, n \in 1..MaxChunks,
          failing \in StageFailures : IndexUrl(url, title, n, failing)
    \/ \E url \in VideoUrls, title \in VideoTitles, n \in 0..MaxChunks,
          failing \in StageFailures : IndexYoutubeUrl(url, title, n, failing)
    \/ \E filename \in PdfNames, n \in 0..MaxChunks,
          failing \in StageFailures : IndexPdf(filename, n, failing)
    \/ \E docs \in SearchResults(SEARCH_K), failing \in {"none", "search", "llm"} :
          Chat(docs, failing)

\* The index management of the same RAGSystem: indexing, deleting, batch indexing.  Videos
\* and PDFs are the other sources held by the store; the failures of their indexing are
\* explored under SpecRag.
StoreNext ==
    \/ \E url \in NewsUrls, title \in NewsTitles, n \in 1..MaxChunks,
          failing \in StageFailures : IndexUrl(url, title, n, failing)
    \/ \E url \in VideoUrls, title \in VideoTitles, n \in 1..MaxChunks :
          IndexYoutubeUrl(url, title, n, "none")
    \/ \E filename \in PdfNames, n \in 1..MaxChunks : IndexPdf(filename, n, "none")
    \/ \E url \in DeleteTargets, failing \in {"none", "store"} : DeleteArticle(url, failing)
    \/ \E items \in Batches : IndexAll(items)

(***************************************************************************)
(* Content loaders: week_3/loaders                                         *)
(*                                                                         *)
(* A text is known by its length and by the length of what strip() leaves  *)
(* of it.  The text splitter is the library's: it yields no chunk for a    *)
(* text that is empty once stripped, and one or more chunks otherwise.     *)
(***************************************************************************)
MIN_ARTICLE_CHARS == 100

Text(chars, stripped) == [chars |-> chars, stripped |-> stripped]
EmptyText == Text(0, 0)
LoaderTexts == {EmptyText, Text(3, 0), Text(99, 99), Text(102, 99), Text(100, 100)}

\* text_splitter.split_text(text): the possible numbers of chunks
SplitCounts(text) == IF text.stripped = 0 THEN {0} ELSE 1..MaxChunks

\* news_loader.py:63  `if not text or len(text.strip()) < 100`
TooShort(text) == text.chars = 0 \/ text.stripped < MIN_ARTICLE_CHARS

LoaderChunk(source, title, i) == [source |-> source, title |-> title, chunk |-> i]
LoaderChunks(source, title, n) == [i \in 1..n |-> LoaderChunk(source, title, i)]

ArticleTitles == {"", "title-a"}
LoaderUrls == {"news-1", "news-2"}

\* news_loader.py:58  `article.title or "Unknown Title"`
TitleOf(t) == IF t = "" THEN "Unknown Title" ELSE t

LoaderInit ==
    /\ loadOp = "none"
    /\ loadOutcome = "returned"
    /\ loadResult = <<>>
    /\ loadStage = "none"
    /\ leftBehind = {}
    /\ loadSucceeded = 0
    /\ loadAttempted = 0

\* news_loader.py:39-90  NewsLoader.load_url; `fetch` = "raise": download or parse raises;
\* n: the number of chunks the splitter makes of "Title: ..." + text
NewsLoadUrl(url, title, text, fetch, n) ==
    /\ loadOp' = "news"
    /\ leftBehind' = {}
    /\ loadSucceeded' = 0
    /\ loadAttempted' = 0
    /\ IF fetch = "raise"
       THEN /\ loadOutcome' = "raised"
            /\ loadStage' = "download"
            /\ loadResult' = <<>>
       ELSE IF TooShort(text)
       THEN /\ loadOutcome' = "raised"
            /\ loadStage' = "content"
            /\ loadResult' = <<>>
       ELSE /\ loadOutcome' = "returned"
            /\ loadStage' = "none"
            /\ loadResult' = LoaderChunks(url, TitleOf(title), n)
    /\ UNCHANGED notLoader

\* What download_video leaves on disk and hands back (youtube_loader.py:69-107):
\* "unavailable": extract_info raises before anything is written; "postprocess": it raises
\* after the media file was written (interrupted download, failed audio extraction);
\* "ok": the mp3 is written and its path returned.
DownloadOutcomes == {"unavailable", "postprocess", "ok"}

\* youtube_loader.py:125-179  YouTubeLoader.load_url; transcribe = "raise": transcribe_audio
\* raises, else it returns `transcript`; removable: os.remove succeeds
YouTubeLoadUrl(url, title, download, transcribe, transcript, n, removable) ==
    /\ loadOp' = "youtube"
    /\ loadSucceeded' = 0
    /\ loadAttempted' = 0
    /\ IF download # "ok"
       THEN \* audio_path is still None: the finally clause removes nothing
            /\ loadOutcome' = "raised"
            /\ loadStage' = "download"
            /\ loadResult' = <<>>
            /\ leftBehind' = IF download = "postprocess" THEN {"downloads/id.webm"} ELSE {}
       ELSE /\ leftBehind' = IF removable THEN {} ELSE {"downloads/id.mp3"}
            /\ IF transcribe = "raise"
               THEN /\ loadOutcome' = "raised"
                    /\ loadStage' = "transcribe"
                    /\ loadResult' = <<>>
               ELSE /\ n \in SplitCounts(transcript)
                    /\ loadOutcome' = "returned"
                    /\ loadStage' = "none"
                    /\ loadResult' = LoaderChunks(url, TitleOf(title), n)
    /\ UNCHANGED notLoader

\* The page texts PyPDFLoader extracts: one Document per page, its text possibly empty.
PdfPages == UNION {[1..k -> {EmptyText, Text(100, 100)}] : k \in 0..MaxPages}

RECURSIVE PdfChunkCounts(_, _)
\* pdf_loader.py:102  split_documents: the possible numbers of chunks of pages i.. on
PdfChunkCounts(pages, i) ==
    IF i > Len(pages) THEN {0}
    ELSE {a + b : a \in SplitCounts(pages[i]), b \in PdfChunkCounts(pages, i + 1)}

\* pdf_loader.py:62-119  PDFLoader.load_from_bytes; `write` = "create": NamedTemporaryFile
\* raises, "write": write or flush raises after the file was created, "ok"; parse = "raise":
\* PyPDFLoader raises; removable: os.unlink succeeds
PdfLoadFromBytes(filename, write, parse, pages, n, removable) ==
    /\ loadOp' = "pdf"
    /\ loadSucceeded' = 0
    /\ loadAttempted' = 0
    /\ IF write # "ok"
       THEN \* temp_path is still None: the finally clause removes nothing
            /\ loadOutcome' = "raised"
            /\ loadStage' = "write"
            /\ loadResult' = <<>>
            /\ leftBehind' = IF write = "write" THEN {"tmp.pdf"} ELSE {}
       ELSE /\ leftBehind' = IF removable THEN {} ELSE {"tmp.pdf"}
            /\ IF parse = "raise"
               THEN /\ loadOutcome' = "raised"
                    /\ loadStage' = "parse"
                    /\ loadResult' = <<>>
               ELSE IF Len(pages) = 0
               THEN /\ loadOutcome' = "raised"
                    /\ loadStage' = "content"
                    /\ loadResult' = <<>>
               ELSE /\ n \in PdfChunkCounts(pages, 1)
                    /\ loadOutcome' = "returned"
                    /\ loadStage' = "none"
                    /\ loadResult' = LoaderChunks(filename, filename, n)
    /\ UNCHANGED notLoader

\* What load_url does for one URL of a batch: it raises, or returns n chunks.
UrlLoads == {[url |-> u, raised |-> TRUE, n |-> 0] : u \in LoaderUrls}
            \cup [url : LoaderUrls, raised : {FALSE}, n : 1..MaxChunks]
UrlBatches == UNION {[1..k -> UrlLoads] : k \in 0..MaxUrls}

RECURSIVE LoadLoop(_, _, _)
\* base_loader.py:45-53  the loop: documents of a URL that loads are appended to
\* all_documents, the message of one that raises to errors, and the loop goes on
LoadLoop(items, i, acc) ==
    IF i > Len(items) THEN acc
    ELSE LoadLoop(items, i + 1,
             IF items[i].raised
             THEN [acc EXCEPT !.errors = Append(@, <<"Failed to load", items[i].url>>)]
             ELSE [acc EXCEPT !.all_documents =
                       @ \o LoaderChunks(items[i].url, "title-a", items[i].n)])

\* base_loader.py:55-60  errors is printed; `return all_documents` is all the caller gets
MultipleReturn(all_documents, errors) == [documents |-> all_documents]

\* base_loader.py:35-60  BaseLoader.load_multiple_urls
LoadMultipleUrls(items) ==
    LET done == LoadLoop(items, 1, [all_documents |-> <<>>, errors |-> <<>>])
    IN /\ loadOp' = "multiple"
       /\ loadOutcome' = "returned"
       /\ loadStage' = "none"
       /\ loadResult' = MultipleReturn(done.all_documents, done.errors)
       /\ leftBehind' = {}
       /\ loadAttempted' = Len(items)
       /\ loadSucceeded' = Len(items) - Len(done.errors)
       /\ UNCHANGED notLoader

LoaderNext ==
    \/ \E url \in LoaderUrls, title \in ArticleTitles, text \in LoaderTexts,
          fetch \in {"ok", "raise"}, n \in 1..MaxChunks :
          NewsLoadUrl(url, title, text, fetch, n)
    \/ \E url \in VideoUrls, title \in ArticleTitles, download \in DownloadOutcomes,
          transcribe \in {"ok", "raise"}, transcript \in LoaderTexts, n \in 0..MaxChunks,
          removable \in BOOLEAN :
          YouTubeLoadUrl(url, title, download, transcribe, transcript, n, removable)
    \/ \E filename \in PdfNames, write \in {"create", "write", "ok"},
          parse \in {"ok", "raise"}, pages \in PdfPages, n \in 0..(MaxPages * MaxChunks),
          removable \in BOOLEAN :
          PdfLoadFromBytes(filename, write, parse, pages, n, removable)
    \/ \E items \in UrlBatches : LoadMultipleUrls(items)

(***************************************************************************)
(* LLM provider construction and selection: week_3/llm_provider_factory,   *)
(* week_1/main, STUDY-BUDDY-AI/app/components/llm                          *)
(*                                                                         *)
(* A model name is a sequence of its parts ("gpt-5-mini" is                *)
(* <<"gpt", "-5", "-mini">>), so that `in` and startswith are computed on  *)
(* it.  A credential is a string; the empty string stands for an absent    *)
(* one (None and "" are both false for `not api_key`).                     *)
(***************************************************************************)
\* llm_provider_factory.py:14-17  the values of the LLMProvider enum
ProviderValues == {"openai", "groq"}

\* str.lower() on a part of a name
LowerWord(w) ==
    CASE w = "OpenAI" -> "openai"
      [] w = "GROQ" -> "groq"
      [] w = "GPT" -> "gpt"
      [] w = "LLaMA" -> "llama"
      [] OTHER -> w
LowerName(name) == [i \in 1..Len(name) |-> LowerWord(name[i])]

StartsWith(text, prefix) ==
    Len(text) >= Len(prefix) /\ SubSeq(text, 1, Len(prefix)) = prefix

\* llm_provider_factory.py:32-42  PROVIDER_MODELS
PROVIDER_MODELS(provider) ==
    IF provider = "openai"
    THEN {<<"gpt", "-5">>, <<"gpt", "-5", "-mini">>, <<"gpt", "-5", "-nano">>}
    ELSE {<<"llama", "-3.3-70b-versatile">>, <<"llama", "-3.1-8b-instant">>}

ProviderNames == {"openai", "GROQ", "OpenAI", "anthropic", ""}
ModelNames ==
    {<<"gpt", "-5">>, <<"GPT", "-5", "-mini">>, <<"gpt", "-4o">>,
     <<"openai/", "gpt", "-oss">>, <<"llama", "-3.3-70b-versatile">>,
     <<"mixtral", "-8x7b">>, <<"my-", "LLaMA", "-tune">>, <<"claude", "-3">>, <<>>}
ApiKeys == {"", "key"}

Args(provider, model, api_key, groq_key, openai_key) ==
    [provider |-> provider, model |-> model, api_key |-> api_key,
     groq_key |-> groq_key, openai_key |-> openai_key]

Client(provider, model) == [kind |-> "client", provider |-> provider, model |-> model]
NoClient == [kind |-> "None"]
Selected(provider) == [kind |-> "provider", provider |-> provider]
ValueError(message) == [kind |-> "ValueError", message |-> message]

Returned(value) == [outcome |-> "returned", result |-> value]
Raised(error) == [outcome |-> "raised", result |-> error]

\* create_llm without its test of the credential
create_llm_unchecked(provider, model_name, api_key) ==
    IF LowerWord(provider) \notin ProviderValues
    THEN Raised(ValueError("is not a valid LLMProvider"))
    ELSE Returned(Client(LowerWord(provider), model_name))

\* llm_provider_factory.py:44-91  LLMProviderFactory.create_llm
create_llm(provider, model_name, api_key) ==
    IF api_key = ""
    THEN Raised(ValueError("API key is required"))
    ELSE IF LowerWord(provider) \notin ProviderValues
    THEN Raised(ValueError("is not a valid LLMProvider"))
    ELSE Returned(Client(LowerWord(provider), model_name))

\* detect_provider that fails where no test matches
detect_provider_strict(model_name) ==
    LET model_lower == LowerName(model_name)
    IN IF \/ \E model \in PROVIDER_MODELS("openai") : Contains(model_lower, model)
          \/ StartsWith(model_lower, <<"gpt">>)
       THEN Returned(Selected("openai"))
       ELSE IF \/ \E model \in PROVIDER_MODELS("groq") : Contains(model_lower, model)
               \/ Contains(model_lower, <<"llama">>)
               \/ Contains(model_lower, <<"mixtral">>)
       THEN Returned(Selected("groq"))
       ELSE Raised(ValueError("no provider"))

\* llm_provider_factory.py:117-141  LLMProviderFactory.detect_provider
detect_provider(model_name) ==
    LET model_lower == LowerName(model_name)
    IN IF \/ \E model \in PROVIDER_MODELS("openai") : Contains(model_lower, model)
          \/ StartsWith(model_lower, <<"gpt">>)
       THEN Returned(Selected("openai"))
       ELSE IF \/ \E model \in PROVIDER_MODELS("groq") : Contains(model_lower, model)
               \/ Contains(model_lower, <<"llama">>)
               \/ Contains(model_lower, <<"mixtral">>)
       THEN Returned(Selected("groq"))
       ELSE Returned(Selected("openai"))

\* week_1/main.py:22-25  LLMApp._is_openai_model
is_openai_model(model) ==
    LET model_lower == LowerName(model)
    IN \/ \E gpt \in PROVIDER_MODELS("openai") : Contains(model_lower, gpt)
       \/ StartsWith(model_lower, <<"openai/">>)

\* `a or b` on credentials
Or(a, b) == IF a # "" THEN a ELSE b

\* week_1/main.py:7-20  LLMApp.__init__: the client it ends with
LLMApp(model, api_key, openai_api_key, env_groq, env_openai) ==
    IF is_openai_model(model)
    THEN IF Or(openai_api_key, env_openai) = ""
         THEN Raised(ValueError("OpenAI API key required for GPT models"))
         ELSE Returned(Client("openai", model))
    ELSE IF Or(api_key, env_groq) = ""
         THEN Raised(ValueError("Groq API key required"))
         ELSE Returned(Client("groq", model))

\* STUDY-BUDDY-AI/app/config/config.py:15-46  AVAILABLE_MODELS
AVAILABLE_MODELS ==
    [name \in {"Groq - LLaMA 3.1 8B", "Groq - LLaMA 3.1 70B", "Groq - Mixtral 8x7B",
               "OpenAI - GPT-4", "OpenAI - GPT-4 Turbo", "OpenAI - GPT-3.5 Turbo"} |->
        CASE name = "Groq - LLaMA 3.1 8B" ->
                 [provider |-> "groq", model_name |-> <<"llama", "-3.1-8b-instant">>]
          [] name = "Groq - LLaMA 3.1 70B" ->
                 [provider |-> "groq", model_name |-> <<"llama", "-3.1-70b-versatile">>]
          [] name = "Groq - Mixtral 8x7B" ->
                 [provider |-> "groq", model_name |-> <<"mixtral", "-8x7b-32768">>]
          [] name = "OpenAI - GPT-4" ->
                 [provider |-> "openai", model_name |-> <<"gpt", "-4">>]
          [] name = "OpenAI - GPT-4 Turbo" ->
                 [provider |-> "openai", model_name |-> <<"gpt", "-4-turbo-preview">>]
          [] OTHER ->
                 [provider |-> "openai", model_name |-> <<"gpt", "-3.5-turbo">>]]

DisplayNames == DOMAIN AVAILABLE_MODELS \cup {"Claude 3"}

\* llm.py:27-62  the try block of load_llm
load_llm_try(model_display_name, GROQ_API_KEY, OPENAI_API_KEY) ==
    IF model_display_name \notin DOMAIN AVAILABLE_MODELS
    THEN Raised(ValueError("not found in available models"))
    ELSE LET model_config == AVAILABLE_MODELS[model_display_name]
         IN IF model_config.provider = "groq"
            THEN IF GROQ_API_KEY = ""
                 THEN Raised(ValueError("GROQ_API_KEY not found in environment variables"))
                 ELSE Returned(Client("groq", model_config.model_name))
            ELSE IF model_config.provider = "openai"
            THEN IF OPENAI_API_KEY = ""
                 THEN Raised(ValueError("OPENAI_API_KEY not found in environment variables"))
                 ELSE Returned(Client("openai", model_config.model_name))
            ELSE Raised(ValueError("Unsupported provider"))

\* llm.py:15-67  load_llm: `except Exception` logs the error and returns None
load_llm(model_display_name, GROQ_API_KEY, OPENAI_API_KEY) ==
    LET tried == load_llm_try(model_display_name, GROQ_API_KEY, OPENAI_API_KEY)
    IN IF tried.outcome = "raised" THEN Returned(NoClient) ELSE tried

\* week_3/rag_system.py:33-75  RAGSystem.__init__: create_llm, then the vector store
RAGSystem(provider, model_name, api_key, store_opens) ==
    LET llm == create_llm(provider, model_name, api_key)
    IN IF llm.outcome = "raised" THEN llm
       ELSE IF ~store_opens THEN Raised([kind |-> "Exception", message |-> "vector store"])
       ELSE Returned([kind |-> "RAGSystem", llm |-> llm.result])

\* week_3/summarizers/base_summarizer.py:29-58  BaseSummarizer.__init__
BaseSummarizer(provider, model_name, api_key) ==
    IF api_key = ""
    THEN Raised(ValueError("API key is required"))
    ELSE LET llm == create_llm(provider, model_name, api_key)
         IN IF llm.outcome = "raised" THEN llm
            ELSE Returned([kind |-> "Summarizer", llm |-> llm.result])

\* get_llm without its test of the credential
get_llm_unchecked(model, OPENAI_API_KEY, constructs) ==
    IF ~constructs
    THEN Raised(ValueError("Error occurred while initializing OpenAI LLM"))
    ELSE Returned(Client("openai", model))

\* week_4/src/llms/openai_llm.py:25-55  OpenAILLM.get_llm; constructs: ChatOpenAI(...) does
\* not raise
get_llm(model, OPENAI_API_KEY, constructs) ==
    IF OPENAI_API_KEY = "" \/ ~constructs
    THEN Raised(ValueError("Error occurred while initializing OpenAI LLM"))
    ELSE Returned(Client("openai", model))

ProvInit ==
    /\ provOp = "none"
    /\ provArg = Args("", <<>>, "", "", "")
    /\ provOutcome = "returned"
    /\ provResult = NoClient

Call(op, arg, done) ==
    /\ provOp' = op
    /\ provArg' = arg
    /\ provOutcome' = done.outcome
    /\ provResult' = done.result
    /\ UNCHANGED notProv

CreateLlm(provider, model_name, api_key) ==
    Call("create_llm", Args(provider, model_name, api_key, "", ""),
         create_llm(provider, model_name, api_key))

DetectProvider(model_name) ==
    Call("detect_provider", Args("", model_name, "", "", ""), detect_provider(model_name))

\* env_groq, env_openai: env_config.groq_api_key, env_config.openai_api_key
NewLLMApp(model, api_key, openai_api_key, env_groq, env_openai) ==
    Call("LLMApp", Args("", model, "", Or(api_key, env_groq), Or(openai_api_key, env_openai)),
         LLMApp(model, api_key, openai_api_key, env_groq, env_openai))

LoadLlm(model_display_name, GROQ_API_KEY, OPENAI_API_KEY) ==
    Call("load_llm", Args(model_display_name, <<>>, "", GROQ_API_KEY, OPENAI_API_KEY),
         load_llm(model_display_name, GROQ_API_KEY, OPENAI_API_KEY))

NewRAGSystem(provider, model_name, api_key, store_opens) ==
    Call("RAGSystem", Args(provider, model_name, api_key, "", ""),
         RAGSystem(provider, model_name, api_key, store_opens))

NewSummarizer(provider, model_name, api_key) ==
    Call("BaseSummarizer", Args(provider, model_name, api_key, "", ""),
         BaseSummarizer(provider, model_name, api_key))

GetLlm(model, OPENAI_API_KEY, constructs) ==
    Call("get_llm", Args("openai", model, "", "", OPENAI_API_KEY),
         get_llm(model, OPENAI_API_KEY, constructs))

(***************************************************************************)
(* Blog generator: week_4/app.py, src/llms/openai_llm.py, src/nodes,       *)
(* src/graphs                                                              *)
(*                                                                         *)
(* A topic is known by its length, a temperature by its tenths.  The       *)
(* framework validates the body against BlogRequest before create_blog     *)
(* runs and answers a body that fails with 422.                            *)
(***************************************************************************)
MIN_TOPIC_LENGTH == 3
MAX_TEMPERATURE == 20
UNPROCESSABLE == 422

TopicLengths == {0, 2, 3, 12}
BlogModels == {"gpt-5", "gpt-5-mini", "gpt-4", "llama-3"}
Temperatures == {-1, 7, 20, 21}

\* week_4/app.py:58  allowed_models of validate_model
AllowedModels == {"gpt-5", "gpt-5-mini"}

\* What the environment of one request does: the credential in it, whether building the
\* graph raises, what the LLM does in the title node and in the content node.
BlogEnvironments ==
    [key : ApiKeys, build : {"ok", "raise"}, title_llm : {"raise", "empty", "title"},
     content_llm : {"raise", "content"}]

\* week_4/app.py:49-54  the Field constraints of BlogRequest.  validate_model (56-61) is a
\* plain classmethod, registered with no validator decorator: validation never calls it.
ValidBody(request) ==
    /\ request.topic >= MIN_TOPIC_LENGTH
    /\ request.temperature >= 0
    /\ request.temperature <= MAX_TEMPERATURE

\* One run of a node, as the trace keeps it.
Ran(node, llm, state) == [node |-> node, llm |-> llm, title |-> state.blog.title]
Traced(node, llm, state) == [state EXCEPT !.trace = Append(@, Ran(node, llm, state))]

\* week_4/src/nodes/blog_node.py:56-99  title_creation: its update of the graph state
title_creation(state, env) ==
    IF state.topic = 0
    THEN Traced("title_creation", FALSE,
                [state EXCEPT !.error = "No topic provided for title generation"])
    ELSE IF env.title_llm = "raise"
    THEN Traced("title_creation", TRUE, [state EXCEPT !.error = "Failed to generate title"])
    ELSE Traced("title_creation", TRUE,
                [state EXCEPT !.blog = [title |-> IF env.title_llm = "empty" THEN ""
                                                  ELSE "title",
                                        content |-> "", language |-> state.language]])

\* blog_node.py:115  `"blog" not in state or not state["blog"].get("title")`
NoTitleNever(state) == FALSE
NoTitle(state) == state.blog.title = ""

\* week_4/src/nodes/blog_node.py:101-165  content_generation
content_generation(state, env) ==
    IF state.topic = 0
    THEN Traced("content_generation", FALSE,
                [state EXCEPT !.error = "No topic provided for content generation"])
    ELSE IF NoTitle(state)
    THEN Traced("content_generation", FALSE,
                [state EXCEPT !.error = "No title found in state for content generation"])
    ELSE IF env.content_llm = "raise"
    THEN Traced("content_generation", TRUE,
                [state EXCEPT !.error = "Failed to generate content"])
    ELSE Traced("content_generation", TRUE, [state EXCEPT !.blog.content = "content"])

\* week_4/src/graphs/graph_builder.py:41-47  START -> title_creation -> content_generation
\* -> END; a blog with an empty title stands for the missing "blog" key
invoke(request, env) ==
    content_generation(
        title_creation([topic |-> request.topic, language |-> request.language,
                        blog |-> [title |-> "", content |-> "", language |-> ""],
                        error |-> "", trace |-> <<>>], env), env)

\* week_4/app.py:98-113  whether create_blog gets to graph.invoke
Invokes(request, env) == ValidBody(request) /\ env.key # "" /\ env.build = "ok"

BlogResponse(success, request, title, content, error) ==
    [success |-> success, topic |-> request.topic, language |-> request.language,
     title |-> title, content |-> content, error |-> error]
HTTPException(status_code, detail) == [status |-> status_code, body |-> [detail |-> detail]]
Ok(body) == [status |-> 200, body |-> body]

\* week_4/app.py:84-144  create_blog, behind the validation of its body
create_blog(request, env) ==
    IF ~ValidBody(request)
    THEN HTTPException(UNPROCESSABLE, "validation error")
    ELSE IF env.key = ""
    THEN \* openai_llm.py:38-55  get_llm raises ValueError; app.py:138-140
         HTTPException(400, "Error occurred while initializing OpenAI LLM")
    ELSE IF env.build = "raise"
    THEN \* app.py:142-144
         HTTPException(500, "Internal server error")
    ELSE LET state == invoke(request, env)
         IN IF state.error # ""
            THEN Ok(BlogResponse(FALSE, request, "", "", state.error))
            ELSE Ok(BlogResponse(TRUE, request, state.blog.title, state.blog.content, ""))

BlogRequests ==
    [topic : TopicLengths, language : {"English"}, model : BlogModels,
     temperature : Temperatures]

BlogInit ==
    /\ blogRun = [request |-> [topic |-> 0, language |-> "", model |-> "", temperature |-> 0],
                  env |-> [key |-> "", build |-> "ok", title_llm |-> "title",
                           content_llm |-> "content"]]
    /\ blogStatus = 0
    /\ blogBody = [detail |-> "none"]
    /\ blogTrace = <<>>

PostBlogs(request, env) ==
    LET answer == create_blog(request, env)
    IN /\ blogRun' = [request |-> request, env |-> env]
       /\ blogStatus' = answer.status
       /\ blogBody' = answer.body
       /\ blogTrace' = IF Invokes(request, env) THEN invoke(request, env).trace ELSE <<>>
       /\ UNCHANGED notBlog

BlogNext == \E request \in BlogRequests, env \in BlogEnvironments : PostBlogs(request, env)

(***************************************************************************)
(* Anime recommender: Mlops/anime recommender/app.py                       *)
(*                                                                         *)
(* A query is a sequence of words and blanks (" "), so that strip() is     *)
(* computed on it.  A form is a function from its field names; a JSON      *)
(* body is an object (a function from its keys to typed values) or is not  *)
(* parseable.                                                              *)
(***************************************************************************)
QueryParts == {" ", "naruto", "bleach"}
Queries == UNION {[1..k -> QueryParts] : k \in 0..MaxQueryLen}

\* str.strip()
Strip(text) ==
    LET inked == {i \in 1..Len(text) : text[i] # " "}
    IN IF inked = {} THEN <<>> ELSE SubSeq(text, MinOf(inked), MaxOf(inked))

NoFields == <<>>
Forms == {NoFields} \cup {[msg |-> q] : q \in Queries}

\* request.form.get(key, default)
FormGet(form, key, default) == IF key \in DOMAIN form THEN form[key] ELSE default

JsonString(text) == [type |-> "string", value |-> text]
JsonNumber == [type |-> "number", value |-> <<>>]
NotJson == [parsed |-> FALSE, data |-> NoFields]
Json(data) == [parsed |-> TRUE, data |-> data]
JsonBodies ==
    {NotJson, Json(NoFields), Json([limit |-> JsonNumber]), Json([query |-> JsonNumber])}
        \cup {Json([query |-> JsonString(q)]) : q \in Queries}

\* pipeline.get_recommendation(user_input) when it returns
Recommendation(user_input) == <<"recommendation">> \o user_input

\* What a handler leaves: the status and body it answers with, and the status labels it
\* incremented REQUEST_COUNT with on its way, here one.
Answer(label, status, body) == [status |-> status, body |-> body, counted |-> <<label>>]

\* get_response that looks at the pipeline before the query
get_response_pipeline_first(form, pipe, raises) ==
    LET user_input == Strip(FormGet(form, "msg", <<>>))
    IN IF pipe = "None"
       THEN Answer(503, 503, <<"Recommendation system is not available">>)
       ELSE IF user_input = <<>> THEN Answer(400, 400, <<"Please provide a query">>)
       ELSE IF raises THEN Answer(500, 500, <<"An error occurred">>)
       ELSE Answer(200, 200, Recommendation(user_input))

\* app.py:80-123  get_response
get_response(form, pipe, raises) ==
    LET user_input == Strip(FormGet(form, "msg", <<>>))
    IN IF user_input = <<>> THEN Answer(400, 400, <<"Please provide a query">>)
       ELSE IF pipe = "None"
       THEN Answer(503, 503, <<"Recommendation system is not available">>)
       ELSE IF raises THEN Answer(500, 500, <<"An error occurred">>)
       ELSE Answer(200, 200, Recommendation(user_input))

\* app.py:125-176  api_recommend; get_json raises on a body that is not JSON, and
\* data['query'].strip() on a query that is not a string: both end in the except clause
api_recommend(body, pipe, raises) ==
    IF ~body.parsed THEN Answer(500, 500, [error |-> <<"bad request">>])
    ELSE IF body.data = NoFields \/ "query" \notin DOMAIN body.data
    THEN Answer(400, 400, [error |-> <<"Missing 'query' field">>])
    ELSE IF body.data.query.type # "string"
    THEN Answer(500, 500, [error |-> <<"has no attribute 'strip'">>])
    ELSE LET user_input == Strip(body.data.query.value)
         IN IF user_input = <<>> THEN Answer(400, 400, [error |-> <<"Query cannot be empty">>])
            ELSE IF pipe = "None"
            THEN Answer(503, 503, [error |-> <<"Recommendation system not available">>])
            ELSE IF raises THEN Answer(500, 500, [error |-> <<"Error during getting recommendation">>])
            ELSE Answer(200, 200, [success |-> TRUE, recommendation |-> Recommendation(user_input),
                              query |-> user_input])

\* app.py:178-189  health: REQUEST_COUNT is incremented before the pipeline is looked at
health(pipe) ==
    IF pipe # "None"
    THEN Answer(200, 200, [status |-> "healthy", pipeline_initialized |-> TRUE])
    ELSE Answer(200, 503, [status |-> "unhealthy", pipeline_initialized |-> FALSE])

\* app.py:74-78  index; a render_template that raises is answered 500 by the framework
index(renders) ==
    IF renders THEN Answer(200, 200, <<"index.html">>)
    ELSE Answer(200, 500, <<"Internal Server Error">>)

\* app.py:83,128  ACTIVE_REQUESTS.inc() and app.py:122-123,175-176  the finally clause's
\* ACTIVE_REQUESTS.dec(); the gauge's inc and dec are atomic (prometheus_client locks)
Inc(gauge) == gauge + 1
NoFinally(gauge) == gauge
Finally(gauge) == gauge - 1

GaugedEndpoints == {"/get", "/api/recommend"}

AnimeInit ==
    /\ pipeline = "unstarted"
    /\ PIPELINE_STATUS = 0
    /\ animeRun = [endpoint |-> "none", input |-> NoFields, raises |-> FALSE]
    /\ animeStatus = 0
    /\ animeBody = <<>>
    /\ animeCounted = <<>>
    /\ ACTIVE_REQUESTS = 0
    /\ inFlight = [e \in GaugedEndpoints |-> 0]

App(pipe) == [kind |-> "app", pipeline |-> pipe]

\* app.py:58-72, 196  create_app: a failing AnimeRecommendationPipeline(...) (GROQ_API_KEY
\* absent: ChatGroq raises; or the vector store cannot be loaded) is caught, and the app is
\* returned and served with pipeline = None
CreateApp(GROQ_API_KEY, store_loads) ==
    /\ pipeline = "unstarted"
    /\ pipeline' = IF GROQ_API_KEY = "" \/ ~store_loads THEN "None" ELSE "pipeline"
    /\ PIPELINE_STATUS' = IF pipeline' = "None" THEN 0 ELSE 1
    /\ provOp' = "create_app"
    /\ provArg' = Args("groq", <<>>, "", GROQ_API_KEY, "")
    /\ provOutcome' = "returned"
    /\ provResult' = App(pipeline')
    /\ UNCHANGED <<animeRun, animeStatus, animeBody, animeCounted, ACTIVE_REQUESTS, inFlight>>
    /\ UNCHANGED notProvAnime

Served(endpoint, input, raises, answer) ==
    /\ pipeline # "unstarted"
    /\ animeRun' = [endpoint |-> endpoint, input |-> input, raises |-> raises]
    /\ animeStatus' = answer.status
    /\ animeBody' = answer.body
    /\ animeCounted' = answer.counted
    /\ UNCHANGED <<pipeline, PIPELINE_STATUS>>
    /\ UNCHANGED notAnime

\* app.py:83,128  a request enters get_response or api_recommend: the first statement of the
\* handler.  Requests are served by threads, so others enter and leave before it goes on.
Enter(endpoint) ==
    /\ pipeline # "unstarted"
    /\ inFlight["/get"] + inFlight["/api/recommend"] < MaxInFlight
    /\ ACTIVE_REQUESTS' = Inc(ACTIVE_REQUESTS)
    /\ inFlight' = [inFlight EXCEPT ![endpoint] = @ + 1]
    /\ UNCHANGED <<pipeline, PIPELINE_STATUS, animeRun, animeStatus, animeBody, animeCounted>>
    /\ UNCHANGED notAnime

\* The try block and the finally clause of a request that entered.
Leave(endpoint) ==
    /\ inFlight[endpoint] > 0
    /\ ACTIVE_REQUESTS' = Finally(ACTIVE_REQUESTS)
    /\ inFlight' = [inFlight EXCEPT ![endpoint] = @ - 1]

\* app.py:84-123  get_response from its second statement on
PostGet(form, raises) ==
    /\ Leave("/get")
    /\ Served("/get", form, raises, get_response(form, pipeline, raises))

\* app.py:129-176  api_recommend from its second statement on
PostApiRecommend(body, raises) ==
    /\ Leave("/api/recommend")
    /\ Served("/api/recommend", body, raises, api_recommend(body, pipeline, raises))

GetHealth ==
    /\ Served("/health", NoFields, FALSE, health(pipeline))
    /\ UNCHANGED <<ACTIVE_REQUESTS, inFlight>>

GetIndex(renders) ==
    /\ Served("/", NoFields, ~renders, index(renders))
    /\ UNCHANGED <<ACTIVE_REQUESTS, inFlight>>

AnimeNext ==
    \/ \E GROQ_API_KEY \in ApiKeys, store_loads \in BOOLEAN : CreateApp(GROQ_API_KEY, store_loads)
    \/ \E endpoint \in GaugedEndpoints : Enter(endpoint)
    \/ \E form \in Forms, raises \in BOOLEAN : PostGet(form, raises)
    \/ \E body \in JsonBodies, raises \in BOOLEAN : PostApiRecommend(body, raises)
    \/ GetHealth
    \/ \E renders \in BOOLEAN : GetIndex(renders)

\* The construction and selection calls, with the start-up of the anime recommender.
ProvNext ==
    \/ \E provider \in ProviderNames, model_name \in ModelNames, api_key \in ApiKeys :
          CreateLlm(provider, model_name, api_key)
    \/ \E model_name \in ModelNames : DetectProvider(model_name)
    \/ \E model \in ModelNames, api_key \in ApiKeys, openai_api_key \in ApiKeys,
          env_groq \in ApiKeys, env_openai \in ApiKeys :
          NewLLMApp(model, api_key, openai_api_key, env_groq, env_openai)
    \/ \E name \in DisplayNames, GROQ_API_KEY \in ApiKeys, OPENAI_API_KEY \in ApiKeys :
          LoadLlm(name, GROQ_API_KEY, OPENAI_API_KEY)
    \/ \E provider \in ProviderNames, model_name \in ModelNames, api_key \in ApiKeys,
          store_opens \in BOOLEAN : NewRAGSystem(provider, model_name, api_key, store_opens)
    \/ \E provider \in ProviderNames, model_name \in ModelNames, api_key \in ApiKeys :
          NewSummarizer(provider, model_name, api_key)
    \/ \E model \in ModelNames, OPENAI_API_KEY \in ApiKeys, constructs \in BOOLEAN :
          GetLlm(model, OPENAI_API_KEY, constructs)
    \/ \E GROQ_API_KEY \in ApiKeys, store_loads \in BOOLEAN : CreateApp(GROQ_API_KEY, store_loads)

(***************************************************************************)
(* RAG chat page (week_3/streamlit_app.py): one action per script run      *)
(***************************************************************************)
\* rag_system.py:309  chat_history[-6:]
RECENT_MESSAGES == 6

\* streamlit_app.py:540  the apps of the selectbox, the first being its default
Apps == <<"News", "YouTube", "PDF Documents">>

\* streamlit_app.py:840,1036,1225  the content type each app renders its chat with
ContentType(app_mode) ==
    IF app_mode = "News" THEN "news" ELSE IF app_mode = "YouTube" THEN "youtube" ELSE "pdf"

\* streamlit_app.py:14-16  the operations of the radio, chat being its default
MODE_CHAT == "Chat Mode"
MODE_INDEX == "Index Articles"

\* What the audio recorder can hold: nothing, or a recording; streamlit_app.py:225 tells
\* recordings of more than 5000 bytes from shorter ones.
Recordings == {"brief", "spoken"}
LongEnough(audio) == audio # "brief"

NoPrompt == <<>>

\* streamlit_app.py:232-251  how transcribing a recording ends
Transcripts == {"ok", "blank", "short", "raise"}

\* streamlit_app.py:95-99  the defaults of the session state; the widgets hold their defaults
UiInit ==
    /\ chat_history = <<>>
    /\ processing_message = FALSE
    /\ current_app_mode = "None"
    /\ rag_mode = MODE_CHAT
    /\ indexed = FALSE
    /\ last_audio_bytes = "None"
    /\ uiPrompt = NoPrompt

\* rag_system.py:311-313  one rendered turn of the conversation
Turn(msg) ==
    [role |-> IF msg.role = "user" THEN "User" ELSE "Assistant", content |-> msg.content]

\* rag_system.py:309  chat_history[-6:]
RecentHistory(h) ==
    SubSeq(h, (IF Len(h) > RECENT_MESSAGES THEN Len(h) - RECENT_MESSAGES ELSE 0) + 1, Len(h))

\* rag_system.py:306-313  conversation_context
ConversationContext(h) == [i \in 1..Len(RecentHistory(h)) |-> Turn(RecentHistory(h)[i])]

\* rag_system.py:299-303  context_texts
ContextTexts(relevant_docs) ==
    [i \in 1..Len(relevant_docs) |-> [label |-> <<"[Document", i, "]">>,
                                      text |-> relevant_docs[i].page_content]]

\* appconfig.py:27-84  the heading each template gives the retrieved context
ContextHeading(content_type) ==
    IF content_type = "youtube" THEN "Retrieved Context from Video Transcripts:"
    ELSE IF content_type = "pdf" THEN "Retrieved Context from PDF Documents:"
    ELSE "Retrieved Context from News Articles:"

\* rag_system.py:315-341 with appconfig.py:27-84  the prompt: the sections of the template
\* in the order the template has them; `instead` is the text that stands in for an empty
\* conversation
ChatPrompt(query, h, relevant_docs, content_type) ==
    << [section |-> "Previous Conversation:",
        body |-> ConversationContext(h),
        instead |-> IF ConversationContext(h) = <<>> THEN "No previous conversation."
                    ELSE ""],
       [section |-> ContextHeading(content_type), body |-> ContextTexts(relevant_docs)],
       [section |-> "Current Question:", body |-> <<query>>] >>

\* The chunks a search returns, told apart by their rank.
Retrieved(n) ==
    [i \in 1..n |-> [source |-> "url", title |-> "title", page_content |-> <<"chunk", i>>]]

\* rag_system.py:272-372  chat, as the page sees it: its result and the prompt it handed
\* to the LLM (none when the search fails or finds nothing)
UiChat(query, h, content_type, n, failing) ==
    IF failing = "search" THEN [result |-> ChatFailure, prompt |-> NoPrompt]
    ELSE IF NoDocuments(Retrieved(n)) THEN [result |-> ChatNoDocuments, prompt |-> NoPrompt]
    ELSE [result |-> IF failing = "llm" THEN ChatFailure ELSE ChatSuccess(Retrieved(n)),
          prompt |-> ChatPrompt(query, h, Retrieved(n), content_type)]

\* streamlit_app.py:109  chat_history[:-1]
HistoryPassedWhole(h) == h
HistoryPassed(h) == SubSeq(h, 1, Len(h) - 1)

\* streamlit_app.py:106-112  process_chat_message
process_chat_message(query, h, content_type, n, failing) ==
    UiChat(query, HistoryPassed(h), content_type, n, failing)

\* streamlit_app.py:167-171  response_msg
ResponseMsg(result) ==
    [role |-> "assistant",
     content |-> IF result.success THEN <<result.summary>> ELSE <<"error", result.error>>]

\* streamlit_app.py:202-207,256-262,269-273  the user message a prompt becomes; prompts are
\* told apart by the place they take in the history
UserMsg(h) == [role |-> "user", content |-> <<"question", Len(h) + 1>>]

\* streamlit_app.py:152  which branch render_chat_interface takes
ProcessingNever(processing, h) == FALSE
Processing(processing, h) == processing /\ h # <<>>

\* The session state a script run works on.
Session(h, processing, last_audio) ==
    [chat_history |-> h, processing_message |-> processing, last_audio_bytes |-> last_audio,
     prompt |-> NoPrompt]

\* How the chat call of a run goes: the number of chunks the search returns, the step that
\* raises ("none", "search", "llm"), and whether the run gets as far as the append of
\* streamlit_app.py:181 (it does not when the user acts meanwhile and the script is rerun,
\* or when generate_speech raises at line 176).
ChatRuns ==
    {r \in [n : {0, MaxChunks}, failing : {"none", "search", "llm"}, completes : BOOLEAN] :
        /\ ~r.completes => r.n = 0 /\ r.failing = "none"
        /\ r.failing = "search" => r.n = 0
        /\ r.failing = "llm" => r.n > 0}

Interrupted == [n |-> 0, failing |-> "none", completes |-> FALSE]

\* streamlit_app.py:152-184  the branch that answers the pending message
AnswerPending(s, content_type, run) ==
    IF s.chat_history[Len(s.chat_history)].role = "user" /\ run.completes
    THEN LET last_message == s.chat_history[Len(s.chat_history)]
             chat == process_chat_message(last_message.content, s.chat_history,
                                          content_type, run.n, run.failing)
         IN  [s EXCEPT !.chat_history = Append(@, ResponseMsg(chat.result)),
                       !.processing_message = FALSE,
                       !.prompt = chat.prompt]
    ELSE s

\* streamlit_app.py:202-207,269-273  a typed prompt
AcceptPrompt(s) ==
    [s EXCEPT !.chat_history = Append(@, UserMsg(@)), !.processing_message = TRUE]

\* streamlit_app.py:213-262  the audio recorder's value, once the typed prompt is dealt with
AcceptAudio(s, audio, transcript) ==
    IF audio # "None" /\ audio # s.last_audio_bytes
    THEN IF LongEnough(audio) /\ transcript = "ok"
         THEN [AcceptPrompt(s) EXCEPT !.last_audio_bytes = audio]
         ELSE [s EXCEPT !.last_audio_bytes = audio]
    ELSE s

\* What a run finds in its widgets.  event: "clear" (the Clear Chat button), "text" (a typed
\* prompt) or "none"; service: whether the speech service is set; audio: the recorder's
\* value; transcript: how transcribing it ends.  Values the run never reads are left at
\* their first one.
Widgets ==
    {w \in [event : {"none", "text", "clear"}, service : BOOLEAN,
            audio : {"None"} \cup Recordings, transcript : Transcripts] :
        /\ w.service <=> w.audio # "None"
        /\ w.event # "none" => w.audio = "None"
        /\ ~LongEnough(w.audio) => w.transcript = "ok"}

Untouched == [event |-> "none", service |-> FALSE, audio |-> "None", transcript |-> "ok"]

\* streamlit_app.py:136-275  render_chat_interface
render_chat_interface(s, content_type, has_entries, w, run) ==
    IF ~has_entries THEN s
    ELSE IF Processing(s.processing_message, s.chat_history)
    THEN AnswerPending(s, content_type, run)
    ELSE IF w.event = "clear" /\ s.chat_history # <<>>
    THEN [s EXCEPT !.chat_history = <<>>, !.processing_message = FALSE]
    ELSE IF w.event = "text" THEN AcceptPrompt(s)
    ELSE IF w.service THEN AcceptAudio(s, w.audio, w.transcript)
    ELSE s

\* streamlit_app.py:538  the value of the app selectbox
AppSelected == IF current_app_mode = "None" THEN Apps[1] ELSE current_app_mode

\* streamlit_app.py:545-549  the session as the sidebar leaves it
Sidebar(app_mode) ==
    IF current_app_mode # app_mode
    THEN Session(<<>>, FALSE, last_audio_bytes)
    ELSE Session(chat_history, processing_message, last_audio_bytes)

\* Whether a run gets to the branch that answers the pending message.
Answers(app_mode, mode, ready) ==
    /\ ready /\ mode = MODE_CHAT /\ indexed
    /\ Processing(Sidebar(app_mode).processing_message, Sidebar(app_mode).chat_history)

\* Whether a run gets to the widgets of the chat page.
ReadsWidgets(app_mode, mode, ready) ==
    /\ ready /\ mode = MODE_CHAT /\ indexed
    /\ ~Processing(Sidebar(app_mode).processing_message, Sidebar(app_mode).chat_history)

\* streamlit_app.py:534-1225  one run of the script.  app_mode, mode: the values of the app
\* selectbox and of the operation radio; ready: whether the run gets past the RAG system's
\* initialisation (st.stop otherwise); w: what it finds in the widgets of the chat page.
\* How the chat call goes is chosen where the run makes one, and a run that does not get
\* to the widgets of the chat page (lines 186-275) is the same step whatever they hold.
ScriptRun(app_mode, mode, ready, w) ==
    \E run \in ChatRuns :
        LET s == IF ready /\ mode = MODE_CHAT
                 THEN render_chat_interface(Sidebar(app_mode), ContentType(app_mode),
                                            indexed, w, run)
                 ELSE Sidebar(app_mode)
        IN  /\ Answers(app_mode, mode, ready) \/ run = Interrupted
            /\ ReadsWidgets(app_mode, mode, ready) \/ w = Untouched
            /\ Len(s.chat_history) <= MaxHistory
            /\ chat_history' = s.chat_history
            /\ processing_message' = s.processing_message
            /\ last_audio_bytes' = s.last_audio_bytes
            /\ uiPrompt' = s.prompt
            /\ current_app_mode' = app_mode
            /\ rag_mode' = mode
            /\ UNCHANGED indexed
            /\ UNCHANGED notUi

\* A rerun no widget caused (st.rerun of lines 184, 191, 207, 262, 273), which is also the
\* run that answers the pending message.
Rerun(ready) == ScriptRun(AppSelected, rag_mode, ready, Untouched)

\* streamlit_app.py:200-207,268-273  the user submits a typed prompt
TextPrompt(w) == w.event = "text" /\ ScriptRun(AppSelected, rag_mode, TRUE, w)

\* streamlit_app.py:213-262  a run that finds a recording in the audio recorder
VoicePrompt(w) == w.audio # "None" /\ ScriptRun(AppSelected, rag_mode, TRUE, w)

\* streamlit_app.py:187-191  the user clicks Clear Chat
ClearChatHistory(w) == w.event = "clear" /\ ScriptRun(AppSelected, rag_mode, TRUE, w)

\* streamlit_app.py:538-549  the user selects another app
SwitchApp(app_mode, w) ==
    /\ app_mode # AppSelected
    /\ w.event = "none"
    /\ ScriptRun(app_mode, MODE_CHAT, TRUE, w)

\* streamlit_app.py:784-840  the user selects another operation
SwitchOperationMode(mode, w) ==
    /\ mode # rag_mode
    /\ w.event = "none"
    /\ ScriptRun(AppSelected, mode, TRUE, w)

\* streamlit_app.py:629-638  the user clicks Clear Index: with a RAG system the collection
\* is emptied and the script rerun from there; without one the run goes on
ClearIndex(has_system) ==
    IF has_system
    THEN /\ indexed' = FALSE
         /\ chat_history' = Sidebar(AppSelected).chat_history
         /\ processing_message' = Sidebar(AppSelected).processing_message
         /\ current_app_mode' = AppSelected
         /\ uiPrompt' = NoPrompt
         /\ UNCHANGED <<rag_mode, last_audio_bytes>>
         /\ UNCHANGED notUi
    ELSE ScriptRun(AppSelected, rag_mode, FALSE, Untouched)

\* streamlit_app.py:791-834  the user indexes content in the index operation
IndexContent(stored) ==
    /\ rag_mode = MODE_INDEX
    /\ indexed' = (indexed \/ stored)
    /\ chat_history' = Sidebar(AppSelected).chat_history
    /\ processing_message' = Sidebar(AppSelected).processing_message
    /\ current_app_mode' = AppSelected
    /\ uiPrompt' = NoPrompt
    /\ UNCHANGED <<rag_mode, last_audio_bytes>>
    /\ UNCHANGED notUi

UiNext ==
    \/ \E ready \in BOOLEAN : Rerun(ready)
    \/ \E w \in Widgets : TextPrompt(w)
    \/ \E w \in Widgets : VoicePrompt(w)
    \/ \E w \in Widgets : ClearChatHistory(w)
    \/ \E i \in 1..Len(Apps), w \in Widgets : SwitchApp(Apps[i], w)
    \/ \E mode \in {MODE_CHAT, MODE_INDEX}, w \in Widgets : SwitchOperationMode(mode, w)
    \/ \E has_system \in BOOLEAN : ClearIndex(has_system)
    \/ \E stored \in BOOLEAN : IndexContent(stored)

Init ==
    /\ QuizInit /\ ChatInit /\ RagInit /\ LoaderInit /\ ProvInit /\ BlogInit /\ AnimeInit
    /\ UiInit

\* One installation of the RAG system: the specifications of the other programs, whose
\* steps never read the RAG system's configuration, start from it.
OneInstallation == embedding_type = "chroma_default" /\ duplicate_policy = "ignore"

InitOne == Init /\ OneInstallation

SpecQuiz == InitOne /\ [][QuizNext]_vars
SpecQuizPage == InitOne /\ [][QuizPageNext]_vars
SpecChat == InitOne /\ [][ChatNext]_vars
SpecLoaders == InitOne /\ [][LoaderNext]_vars
SpecProviders == InitOne /\ [][ProvNext]_vars
SpecBlog == InitOne /\ [][BlogNext]_vars
SpecAnime == InitOne /\ [][AnimeNext]_vars
SpecRagUi == InitOne /\ [][UiNext]_vars
SpecRag == Init /\ [][RagNext]_vars
SpecStore == Init /\ [][StoreNext]_vars

(***************************************************************************)
(* Properties of the quiz generator                                        *)
(***************************************************************************)
\* The structural constraints as the specification words them.
HasFourOptionsAndAnswerAmongThem(q) ==
    /\ Len(q.options) = 4
    /\ \E i \in 1..Len(q.options) : q.options[i] = q.correct_answer

HasBlankMarker(text) ==
    \E i \in 1..Len(text) :
        /\ i + 2 <= Len(text)
        /\ text[i] = "_" /\ text[i + 1] = "_" /\ text[i + 2] = "_"

StructurallyValid(out) ==
    \/ out.kind = "mcq" /\ HasFourOptionsAndAnswerAmongThem(out)
    \/ out.kind = "fill" /\ HasBlankMarker(out.question)

\* C1: a question generate_mcq returns (and generate_questions stores) has exactly 4 options
\* and its correct_answer is one of them, whatever the earlier attempts produced.
C1_McqAcceptedIsValid ==
    /\ (genOutcome = "returned" /\ genType = "Multiple Choice")
          => /\ genResult.kind = "mcq"
             /\ HasFourOptionsAndAnswerAmongThem(genResult)
    /\ \A i \in 1..Len(questions) :
          questions[i].type = "MCQ" => HasFourOptionsAndAnswerAmongThem(questions[i])

\* a valid MCQ returned on the third attempt, after two rejected outputs
C1_Witness ==
    /\ genOutcome = "returned" /\ genType = "Multiple Choice"
    /\ Len(attemptLog) = 3
    /\ attemptLog[1] \in McqOutputs /\ attemptLog[2] \in McqOutputs

\* C2: a question generate_fill_blank returns (and generate_questions stores) contains the
\* blank marker '___' in its text.
C2_FillBlankAcceptedHasMarker ==
    /\ (genOutcome = "returned" /\ genType = "Fill in the Blank")
          => /\ genResult.kind = "fill"
             /\ HasBlankMarker(genResult.question)
    /\ \A i \in 1..Len(questions) :
          questions[i].type = "Fill in the blank" => HasBlankMarker(questions[i].question)

\* a fill-in-the-blank returned after an output without the marker was rejected
C2_Witness ==
    /\ genOutcome = "returned" /\ genType = "Fill in the Blank"
    /\ Len(attemptLog) >= 2
    /\ attemptLog[1] \in FillBlankOutputs

\* C3: one generate_* call invokes the chain at most 3 times; a structurally valid output
\* ends the call and is what the call returns (no attempt follows it), so every attempt
\* before the last one raised or was structurally invalid.
C3_RetryLoopReturnsFirstValid ==
    /\ Len(attemptLog) <= 3
    /\ \A i \in 1..Len(attemptLog) :
          StructurallyValid(attemptLog[i])
              => /\ i = Len(attemptLog)
                 /\ genOutcome = "returned"
                 /\ genResult = attemptLog[i]
    /\ genOutcome = "returned"
          => /\ Len(attemptLog) >= 1
             /\ StructurallyValid(attemptLog[Len(attemptLog)])

\* a call that returned the output of its second attempt after a failed first one
C3_Witness ==
    /\ genOutcome = "returned"
    /\ Len(attemptLog) = 2
    /\ ~StructurallyValid(attemptLog[1])
    /\ genResult = attemptLog[2]

AllAttemptsFailed ==
    /\ Len(attemptLog) = MAX_RETRIES
    /\ \A i \in 1..Len(attemptLog) : ~StructurallyValid(attemptLog[i])

\* C4 as stated: after MAX_RETRIES failed attempts the error that reaches the caller is the
\* exhausted-retries error itself: it names the bound and its cause is the last attempt's failure.
C4_ExhaustedErrorReachesCaller ==
    AllAttemptsFailed
        => /\ genOutcome = "raised"
           /\ Len(genError) = 2
           /\ genError[1].bound = MAX_RETRIES
           /\ genError[2] = AttemptFailure(genType, attemptLog[MAX_RETRIES])

\* What the code does instead (not the statement of C4): after MAX_RETRIES failed attempts
\* the call raises and generate_questions reports failure; the error reaching the caller is the generic
\* "generation failed" error, whose cause is the exhausted-retries error naming the bound,
\* whose cause is the failure of the last attempt.
C4_ExhaustedErrorIsWrapped ==
    AllAttemptsFailed
        => /\ genOutcome = "raised"
           /\ genResult = NoQuestion
           /\ genSuccess = "false"
           /\ Len(genError) = 3
           /\ genError[1] = OuterError(genType)
           /\ genError[2].bound = 3
           /\ genError[3] = AttemptFailure(genType, attemptLog[MAX_RETRIES])

\* three failed attempts, the last one a structurally invalid output
C4_Witness ==
    /\ AllAttemptsFailed
    /\ genOutcome = "raised"
    /\ attemptLog[MAX_RETRIES] # ChainRaised
    /\ attemptLog[1] = ChainRaised

\* C5: when generate_questions reports success for num_questions = N, the manager holds
\* exactly N questions, each structurally valid and of the requested type.
C5_SuccessMeansNValidQuestions ==
    genSuccess = "true"
        => /\ Len(questions) = genN
           /\ quiz_generated
           /\ \A i \in 1..Len(questions) :
                 IF genType = "Multiple Choice"
                 THEN /\ questions[i].type = "MCQ"
                      /\ HasFourOptionsAndAnswerAmongThem(questions[i])
                 ELSE /\ questions[i].type = "Fill in the blank"
                      /\ HasBlankMarker(questions[i].question)

\* a successful two-question fill-in-the-blank quiz
C5_Witness ==
    /\ genSuccess = "true"
    /\ genN = 2
    /\ genType = "Fill in the Blank"
    /\ Len(questions) = 2

(***************************************************************************)
(* Properties of the customer-support chat                                 *)
(***************************************************************************)
\* C6: the retained conversation history never holds more than 20 entries, and what it
\* retains are the most recently appended entries, in the order they were appended.
C6_HistoryBoundedMostRecent ==
    /\ Len(history) <= 20
    /\ \A i \in 1..Len(history) : history[i].content = appended - Len(history) + i

\* C7: the session is authenticated exactly when a verification call has answered with a
\* successful verification since the session started or since the last logout.
C7_AuthenticatedIffVerified ==
    session.authenticated <=> verified

(***************************************************************************)
(* Properties of the RAG orchestrator                                      *)
(***************************************************************************)
\* C8: a chat call whose search returns no documents answers success = false with the
\* "No relevant documents found" error and does not invoke the LLM; with nothing indexed
\* no chat call yields a generated answer.
C8_NoDocumentsShortCircuits ==
    /\ (ragOp = "chat" /\ ragStage # "search" /\ Len(retrieved) = 0)
          => /\ ragOutcome = "returned"
             /\ ragResult.success = FALSE
             /\ ragResult.error = "No relevant documents found"
             /\ ~llmInvoked
    /\ (ragOp = "chat" /\ Len(store) = 0)
          => /\ ~llmInvoked
             /\ ragOutcome = "returned" => ragResult.success = FALSE

\* a question asked with nothing indexed, short-circuited
C8_Witness ==
    /\ ragOp = "chat"
    /\ ragStage = "none"
    /\ Len(store) = 0
    /\ Len(retrieved) = 0
    /\ ragResult = ChatNoDocuments

Unsuccessful ==
    /\ ragOp # "none"
    /\ ragOutcome = "returned" => ragResult.success = FALSE

\* C9 as stated: an operation in which a stage failed returns success = false with the
\* message under the key 'error', for chat and for the three index operations alike.
C9_FailureUnderErrorKey ==
    (ragOp # "none" /\ ragStage # "none")
        => /\ ragOutcome = "returned"
           /\ ragResult.success = FALSE
           /\ "error" \in DOMAIN ragResult

\* C9 amended: no operation lets an exception through; a failed chat returns success = false
\* with the message under 'error', a failed index operation returns success = false with the
\* message under 'message' (and num_chunks = 0, no 'error' key).
C9_FailureIsStructured ==
    /\ ragOutcome = "returned"
    /\ ragStage # "none" => Unsuccessful
    /\ (Unsuccessful /\ ragOp = "chat")
          => "error" \in DOMAIN ragResult
    /\ (Unsuccessful /\ ragOp \in IndexOps)
          => /\ "message" \in DOMAIN ragResult
             /\ "error" \notin DOMAIN ragResult
             /\ ragResult.num_chunks = 0

\* a search failure inside chat, reported under 'error'
C9_Witness ==
    /\ ragOp = "chat"
    /\ ragStage = "search"
    /\ ragOutcome = "returned"
    /\ ragResult.error = "Error in chat"

\* position of the first retrieved chunk carrying the source
FirstChunkWith(source) ==
    CHOOSE i \in 1..Len(retrieved) :
        /\ retrieved[i].source = source
        /\ \A j \in 1..(i - 1) : retrieved[j].source # source

\* C10: the references of a successful chat hold exactly one entry per distinct source of
\* the retrieved chunks, in order of first occurrence, each with the title of the first
\* retrieved chunk of that source.
C10_ReferencesUniqueFirstOccurrence ==
    (ragOp = "chat" /\ ragOutcome = "returned" /\ ragResult.success)
        => LET refs == ragResult.references
           IN  /\ {refs[i].url : i \in 1..Len(refs)}
                     = {retrieved[i].source : i \in 1..Len(retrieved)}
               /\ \A i, j \in 1..Len(refs) : i # j => refs[i].url # refs[j].url
               /\ \A i, j \in 1..Len(refs) :
                     i < j => FirstChunkWith(refs[i].url) < FirstChunkWith(refs[j].url)
               /\ \A i \in 1..Len(refs) :
                     refs[i].title = retrieved[FirstChunkWith(refs[i].url)].title

\* three chunks retrieved, the article's two chunks carrying different titles around a
\* chunk of another source: two references, the article's with the first title
C10_Witness ==
    /\ ragOp = "chat" /\ ragOutcome = "returned" /\ ragResult.success
    /\ Len(retrieved) = 3
    /\ retrieved[1].source = retrieved[3].source
    /\ retrieved[1].title # retrieved[3].title
    /\ retrieved[2].source # retrieved[1].source
    /\ Len(ragResult.references) = 2
    /\ ragResult.references[1].title = retrieved[1].title

(***************************************************************************)
(* Properties of the index management                                      *)
(***************************************************************************)
Documents(st) == [i \in 1..Len(st) |-> Document(st[i])]

\* the entries of st whose metadata source differs from url, in order
Remaining(st, url) ==
    LET other(e) == e.source # url IN SelectSeq(st, other)

\* a step that is one delete_article call in which the store did not fail
DeleteStep ==
    /\ ragOp' = "delete_article"
    /\ batchReport' = NoBatch
    /\ ragStage' = "none"

\* C11 as stated: delete_article removes all and only the entries of the given source and
\* returns the count removed; for a source with no entry it returns a count of 0 as a
\* non-error result and leaves the store unchanged.
C11_DeleteReturnsCount ==
    [][DeleteStep
          => /\ Documents(store') = Documents(Remaining(store, ragArg'))
             /\ "chunks_deleted" \in DOMAIN ragResult'
             /\ ragResult'.chunks_deleted = Len(store) - Len(store')
             /\ "error" \notin DOMAIN ragResult']_vars

\* C11 amended: delete_article removes all and only the entries of the given source (the
\* other entries stay as they are, in order); when it removed some it returns success with
\* chunks_deleted = the number removed; when the source has no entry it leaves the store
\* unchanged and returns success = false with the message "Article not found in index",
\* without a count and without an 'error' key.
C11_DeleteRemovesAllAndOnly ==
    [][DeleteStep
          => LET removed == Len(store) - Len(store')
             IN  /\ Documents(store') = Documents(Remaining(store, ragArg'))
                 /\ embedding_type = "chroma_default" => store' = Remaining(store, ragArg')
                 /\ IF removed > 0
                    THEN /\ ragResult'.success
                         /\ ragResult'.chunks_deleted = removed
                    ELSE /\ store' = store
                         /\ ragResult'.success = FALSE
                         /\ ragResult'.message = "Article not found in index"
                         /\ DOMAIN ragResult' = {"success", "message"}]_vars

\* a never-indexed source deleted from a store that holds three entries
C11_Witness ==
    /\ ragOp = "delete_article"
    /\ ragArg = "never-indexed"
    /\ ragStage = "none"
    /\ ragResult = DeleteNotFound
    /\ Len(store) = 3

\* a step that is one index_* call in which the loader delivered chunks and neither the
\* loader nor the store met an outside failure
IndexStep ==
    /\ ragOp' \in IndexOps
    /\ batchReport' = NoBatch
    /\ ragStage' \notin {"load", "store"}
    /\ ragLoaded' > 0

\* C12: an index call adds one new entry per chunk and leaves the earlier entries
\* unchanged, also when the source is already indexed, with either embedding type.
C12_ReindexAddsEntries ==
    [][IndexStep
          => /\ Len(store') = Len(store) + ragLoaded'
             /\ Documents(SubSeq(store', 1, Len(store))) = Documents(store)
             /\ \A i \in (Len(store) + 1)..Len(store') : store'[i].source = ragArg']_vars

TrueCount(flags) == Cardinality({i \in 1..Len(flags) : flags[i]})

\* The "Index All" half of C13 (not the whole claim): the handler attempts every URL of
\* the batch, the count it shows is the number of URLs whose indexing succeeded, and a
\* partial success is shown as "Indexed k/n articles. Some failed."
C13_IndexAllReportsPartialSuccess ==
    batchReport.level \in {"success", "warning", "error"}
        => /\ batchReport.total = Len(batchOutcomes)
           /\ batchReport.success_count = TrueCount(batchOutcomes)
           /\ batchReport.some_failed = (TrueCount(batchOutcomes) < Len(batchOutcomes))
           /\ (0 < TrueCount(batchOutcomes) /\ TrueCount(batchOutcomes) < Len(batchOutcomes))
                 => batchReport.level = "warning"

(***************************************************************************)
(* Properties of the content loaders                                       *)
(***************************************************************************)
SingleLoads == {"news", "youtube", "pdf"}

\* C13 (load_multiple_urls): when only some URLs of a batch load, what the call hands its
\* caller tells that some failed and how many succeeded.
C13_PartialSuccessIsReported ==
    (loadOp = "multiple" /\ 0 < loadSucceeded /\ loadSucceeded < loadAttempted)
        => /\ "success_count" \in DOMAIN loadResult
           /\ loadResult.success_count = loadSucceeded

\* C19: a loader call that returns, returns at least one chunk.
C19_LoaderNeverReturnsEmpty ==
    (loadOp \in SingleLoads /\ loadOutcome = "returned") => Len(loadResult) > 0

\* C20: when a loader call has returned or raised, no file it wrote is left.
C20_TempFilesRemoved ==
    loadOp \in SingleLoads => leftBehind = {}
(***************************************************************************)
(* Properties of provider construction and selection                       *)
(***************************************************************************)
\* The case of C14: a construction call with an unsupported name or without the credential
\* its provider needs.
UnsupportedOrNoCredential ==
    \/ /\ provOp = "create_llm"
       /\ LowerWord(provArg.provider) \notin ProviderValues \/ provArg.api_key = ""
    \/ /\ provOp = "load_llm"
       /\ \/ provArg.provider \notin DOMAIN AVAILABLE_MODELS
          \/ /\ AVAILABLE_MODELS[provArg.provider].provider = "groq"
             /\ provArg.groq_key = ""
          \/ /\ AVAILABLE_MODELS[provArg.provider].provider = "openai"
             /\ provArg.openai_key = ""

\* C14 as stated: create_llm and load_llm, called with an unsupported name or without the
\* credential, raise an error to the caller.
C14_ConstructionRaises ==
    UnsupportedOrNoCredential => provOutcome = "raised" /\ provResult.kind = "ValueError"

\* C14, amended: create_llm raises a ValueError; load_llm returns None; neither returns a
\* client.
C14_ConstructionNeverYieldsClient ==
    UnsupportedOrNoCredential =>
        IF provOp = "create_llm"
        THEN provOutcome = "raised" /\ provResult.kind = "ValueError"
        ELSE provOutcome = "returned" /\ provResult = NoClient

C14_Witness ==
    /\ provOp = "load_llm"
    /\ provArg.provider = "Groq - LLaMA 3.1 8B"
    /\ provArg.groq_key = ""
    /\ provOutcome = "returned"
    /\ provResult = NoClient

\* A model name that none of the selection tests of the repository recognises.
MatchesNoProvider(model) ==
    LET model_lower == LowerName(model)
    IN /\ \A p \in ProviderValues : \A known \in PROVIDER_MODELS(p) :
              ~Contains(model_lower, known)
       /\ ~StartsWith(model_lower, <<"gpt">>)
       /\ ~StartsWith(model_lower, <<"openai/">>)
       /\ ~Contains(model_lower, <<"llama">>)
       /\ ~Contains(model_lower, <<"mixtral">>)

\* The case of C15: a selection call with a name that matches no supported provider.
SelectsUnmatched ==
    \/ provOp = "create_llm" /\ LowerWord(provArg.provider) \notin ProviderValues
    \/ provOp \in {"detect_provider", "LLMApp"} /\ MatchesNoProvider(provArg.model)

\* C15 as stated: for a name that matches no supported provider the selection fails.
C15_NoDefaultProvider ==
    SelectsUnmatched => provOutcome = "raised"

\* C15, amended: create_llm fails; detect_provider answers "openai"; LLMApp builds a Groq
\* client, and fails only when there is no Groq credential.
C15_DefaultsOutsideCreateLlm ==
    SelectsUnmatched =>
        CASE provOp = "create_llm" ->
                 provOutcome = "raised" /\ provResult.kind = "ValueError"
          [] provOp = "detect_provider" ->
                 provOutcome = "returned" /\ provResult = Selected("openai")
          [] OTHER ->
                 IF provArg.groq_key = ""
                 THEN /\ provOutcome = "raised"
                      /\ provResult = ValueError("Groq API key required")
                 ELSE /\ provOutcome = "returned"
                      /\ provResult = Client("groq", provArg.model)

C15_Witness ==
    /\ provOp = "LLMApp"
    /\ provArg.model = <<"claude", "-3">>
    /\ provOutcome = "returned"
    /\ provResult = Client("groq", <<"claude", "-3">>)
(***************************************************************************)
(* Properties of the blog generator                                        *)
(***************************************************************************)
Answered == blogStatus # 0

InvalidModelOrTopic ==
    \/ blogRun.request.model \notin AllowedModels
    \/ blogRun.request.topic < MIN_TOPIC_LENGTH

\* The LLM call of a graph node fails while the request is in order and the LLM was built.
NodeLlmFails ==
    /\ ~InvalidModelOrTopic
    /\ ValidBody(blogRun.request)
    /\ blogRun.env.key # "" /\ blogRun.env.build = "ok"
    /\ \/ blogRun.env.title_llm = "raise"
       \/ blogRun.env.title_llm = "title" /\ blogRun.env.content_llm = "raise"

\* C16: POST /blogs answers an invalid model or a topic shorter than 3 characters with 400
\* and a failing LLM call inside a graph node with 500.
C16_BlogErrorStatuses ==
    Answered => /\ InvalidModelOrTopic => blogStatus = 400
                /\ NodeLlmFails => blogStatus = 500
(***************************************************************************)
(* Properties of the anime recommender                                     *)
(***************************************************************************)
\* The query of the last request, stripped; <<>> when the request carries none.
SentQuery ==
    IF animeRun.endpoint = "/get" THEN Strip(FormGet(animeRun.input, "msg", <<>>))
    ELSE IF "query" \in DOMAIN animeRun.input.data
    THEN Strip(animeRun.input.data.query.value)
    ELSE <<>>

\* /api/recommend bodies the claim speaks of: a JSON object whose query, if any, is a string.
ObjectWithTextQuery ==
    /\ animeRun.input.parsed
    /\ "query" \in DOMAIN animeRun.input.data => animeRun.input.data.query.type = "string"

\* C17: POST /get answers 400 exactly when msg is empty or whitespace, otherwise 503 exactly
\* when the pipeline failed to initialize, otherwise 500 exactly when recommending raises,
\* otherwise 200 with the recommendation; POST /api/recommend keeps the same precedence for
\* a missing or empty query.
C17_StatusPrecedence ==
    (animeRun.endpoint \in {"/get", "/api/recommend"}
        /\ (animeRun.endpoint = "/api/recommend" => ObjectWithTextQuery))
    => /\ animeStatus = 400 <=> SentQuery = <<>>
       /\ animeStatus = 503 <=> (SentQuery # <<>> /\ pipeline = "None")
       /\ animeStatus = 500 <=> (SentQuery # <<>> /\ pipeline # "None" /\ animeRun.raises)
       /\ animeStatus = 200 <=> (SentQuery # <<>> /\ pipeline # "None" /\ ~animeRun.raises)
       /\ animeStatus \in {400, 503, 500, 200}
       /\ (animeStatus = 200 /\ animeRun.endpoint = "/get")
              => animeBody = Recommendation(SentQuery)
       /\ (animeStatus = 200 /\ animeRun.endpoint = "/api/recommend")
              => animeBody.recommendation = Recommendation(SentQuery)

\* A whitespace-only msg sent while the pipeline is not initialized: answered 400, not 503.
C17_Witness ==
    /\ animeRun.endpoint = "/get"
    /\ animeRun.input = [msg |-> <<" ", " ">>]
    /\ pipeline = "None"
    /\ animeStatus = 400
(***************************************************************************)
(* Properties of start-up without a credential                             *)
(***************************************************************************)
\* The case of C18: a start-up step run while the credential it needs is absent.
StartsWithoutCredential ==
    \/ provOp \in {"RAGSystem", "BaseSummarizer"} /\ provArg.api_key = ""
    \/ provOp = "get_llm" /\ provArg.openai_key = ""
    \/ provOp = "create_app" /\ provArg.groq_key = ""
    \/ /\ provOp = "load_llm"
       /\ provArg.provider \in DOMAIN AVAILABLE_MODELS
       /\ \/ /\ AVAILABLE_MODELS[provArg.provider].provider = "groq"
             /\ provArg.groq_key = ""
          \/ /\ AVAILABLE_MODELS[provArg.provider].provider = "openai"
             /\ provArg.openai_key = ""

\* C18 as stated: with the credential missing, initialization aborts with an error.
C18_StartupAborts ==
    StartsWithoutCredential => provOutcome = "raised"

\* C18, amended: RAGSystem, the summarizer and get_llm raise a ValueError; load_llm returns
\* None; create_app returns the application with pipeline = None and the gauge at 0.
C18_StartupAbortsOrDegrades ==
    StartsWithoutCredential =>
        CASE provOp \in {"RAGSystem", "BaseSummarizer", "get_llm"} ->
                 provOutcome = "raised" /\ provResult.kind = "ValueError"
          [] provOp = "load_llm" ->
                 provOutcome = "returned" /\ provResult = NoClient
          [] OTHER ->
                 /\ provOutcome = "returned" /\ provResult = App("None")
                 /\ pipeline = "None" /\ PIPELINE_STATUS = 0

C18_Witness ==
    /\ provOp = "create_app"
    /\ provArg.groq_key = ""
    /\ provOutcome = "returned"
    /\ provResult = App("None")
    /\ pipeline = "None"

(***************************************************************************)
(* Properties of the RAG chat page                                         *)
(***************************************************************************)
\* The history a completed answering run started from, less its pending message, and that
\* pending message: the run appended one message to it.
GivenHistory == SubSeq(chat_history, 1, Len(chat_history) - 2)
PendingQuery == chat_history[Len(chat_history) - 1]

\* C21: the prompt handed to the LLM has the conversation turns first, then the retrieved
\* chunks labelled [Document i] in retrieval order, then the current query; the conversation
\* turns are exactly the last min(6, n) entries of the n-entry history the page passes, in
\* their order, and the current query is not among them.
C21_PromptOrderAndWindow ==
    uiPrompt # NoPrompt =>
        LET n == Len(GivenHistory)
            k == IF n < 6 THEN n ELSE 6
            conversation == uiPrompt[1].body
            documents == uiPrompt[2].body
        IN  /\ Len(uiPrompt) = 3
            /\ uiPrompt[1].section = "Previous Conversation:"
            /\ uiPrompt[2].section = ContextHeading(ContentType(current_app_mode))
            /\ uiPrompt[3].section = "Current Question:"
            /\ PendingQuery.role = "user"
            /\ uiPrompt[3].body = <<PendingQuery.content>>
            /\ Len(documents) > 0
            /\ \A i \in 1..Len(documents) :
                  /\ documents[i].label = <<"[Document", i, "]">>
                  /\ documents[i].text = <<"chunk", i>>
            /\ uiPrompt[1].instead = IF k = 0 THEN "No previous conversation." ELSE ""
            /\ Len(conversation) = k
            /\ \A i \in 1..k :
                  /\ conversation[i].role =
                        IF GivenHistory[n - k + i].role = "user" THEN "User" ELSE "Assistant"
                  /\ conversation[i].content = GivenHistory[n - k + i].content
                  /\ conversation[i].role = "User" =>
                        conversation[i].content # PendingQuery.content

\* A prompt composed from a history of more than six entries.
C21_Witness ==
    /\ uiPrompt # NoPrompt
    /\ Len(GivenHistory) > 6
    /\ Len(uiPrompt[2].body) > 1

\* C30: the history alternates user and assistant messages, starting with a user message;
\* a run appends a user message only when processing_message is false, a pending user
\* message gets one assistant message (the answer or an error text), and when
\* processing_message is false the history is empty or ends with an assistant message.
Alternates(h) ==
    \A i \in 1..Len(h) : h[i].role = IF i % 2 = 1 THEN "user" ELSE "assistant"

C30_AlternatesInEveryState ==
    /\ Alternates(chat_history)
    /\ ~processing_message =>
          chat_history = <<>> \/ chat_history[Len(chat_history)].role = "assistant"
    /\ processing_message =>
          chat_history # <<>> /\ chat_history[Len(chat_history)].role = "user"

\* Every step that appends to the history appends one message: a user message, with
\* processing_message false before and true after, or the assistant's answer or error text
\* to a pending user message, with processing_message true before and false after.
C30_OneAnswerPerPrompt ==
    Len(chat_history') > Len(chat_history) =>
          /\ Len(chat_history') = Len(chat_history) + 1
          /\ LET new == chat_history'[Len(chat_history')]
             IN  \/ /\ new.role = "user"
                    /\ ~processing_message /\ processing_message'
                 \/ /\ new.role = "assistant"
                    /\ processing_message /\ ~processing_message'
                    /\ chat_history' = Append(chat_history, new)
                    /\ chat_history[Len(chat_history)].role = "user"
                    /\ new.content[1] \in {"generated answer", "error"}

C30_HistoryAlternates == []C30_AlternatesInEveryState /\ [][C30_OneAnswerPerPrompt]_vars

\* A fifth exchange is pending after four answered ones, one of them with an error text.
C30_Witness ==
    /\ processing_message
    /\ Len(chat_history) = 9
    /\ \E i \in 1..Len(chat_history) :
          chat_history[i].role = "assistant" /\ chat_history[i].content[1] = "error"

(***************************************************************************)
(* Properties of the blog graph                                            *)
(***************************************************************************)
BlogSucceeded == blogStatus = 200 /\ blogBody.success

\* C22: the graph runs title_creation and then content_generation, each once; the content
\* node calls the LLM only when the state holds a non-empty title, so a successful answer
\* has a non-empty title that was produced before its content.
C22_TitleBeforeContent ==
    /\ Len(blogTrace) <= 2
    /\ \A i, j \in 1..Len(blogTrace) : blogTrace[i].node = blogTrace[j].node => i = j
    /\ \A j \in 1..Len(blogTrace) :
          blogTrace[j].node = "content_generation" =>
              /\ j > 1 /\ blogTrace[j - 1].node = "title_creation"
              /\ blogTrace[j].llm => blogTrace[j - 1].llm /\ blogTrace[j - 1].title # ""
    /\ BlogSucceeded =>
          /\ Len(blogTrace) = 2
          /\ blogTrace[2].llm
          /\ blogBody.title # ""
          /\ blogBody.title = blogTrace[1].title
          /\ blogBody.content # ""

C22_Witness ==
    /\ BlogSucceeded
    /\ Len(blogTrace) = 2
    /\ blogBody.title = "title"

\* The title node failed: its LLM call raised.
TitleCreationFailed ==
    /\ blogTrace # <<>>
    /\ blogTrace[1].node = "title_creation"
    /\ blogRun.env.title_llm = "raise"

\* C29: when title_creation fails, content_generation calls no LLM and the answer is a
\* failure whose error is the title node's.
C29_TitleErrorKept ==
    TitleCreationFailed =>
        /\ \A j \in 1..Len(blogTrace) : blogTrace[j].node = "content_generation" =>
              ~blogTrace[j].llm
        /\ blogStatus = 200 /\ ~blogBody.success
        /\ blogBody.error = "Failed to generate title"

(***************************************************************************)
(* Properties of the quiz page                                             *)
(***************************************************************************)
\* C23: after the renders of the page and Submit, user_answers holds one answer per
\* question, and question i is scored against the answer the most recent render shows.
C23_ScoresLatestAnswers ==
    lastRender.step = "submit" =>
        /\ Len(user_answers) = Len(questions)
        /\ Len(results) = Len(questions)
        /\ \A i \in 1..Len(results) :
              /\ results[i].user_answer = lastRender.answers[i]
              /\ results[i].is_correct = IsCorrect(questions[i], lastRender.answers[i])

\* C24: a generate_questions call that returns False leaves the manager with no question,
\* no answer and no result.
C24_AllOrNothing ==
    genSuccess = "false" =>
        /\ questions = <<>>
        /\ user_answers = <<>>
        /\ results = <<>>

(***************************************************************************)
(* Properties of the customer-support session's order calls                *)
(***************************************************************************)
OrderCalls == {i \in 1..Len(mcpCalls) : mcpCalls[i].tool \in {"list_orders", "get_order"}}

\* C25: an authenticated session has its customer_id set, whichever way it logged in, and
\* every list_orders call forwarded to the MCP server carries that id as its filter.
C25_AuthenticatedHasCustomerId ==
    /\ session.authenticated => session.customer_id # None /\ session.customer_id # <<>>
    /\ \A i \in 1..Len(mcpCalls) :
          mcpCalls[i].tool = "list_orders" =>
              mcpCalls[i].args = << <<"customer_id", session.customer_id>> >>

\* C26: while the session is unauthenticated, no list_orders or get_order call the LLM
\* chose is forwarded to the MCP server.
C26_NoOrderCallUnauthenticated ==
    \A i \in OrderCalls : mcpCalls[i].authenticated

(***************************************************************************)
(* Properties of the anime recommender's metrics                           *)
(***************************************************************************)
\* C27: under every interleaving of POST /get and POST /api/recommend requests the
\* active_requests gauge is the number of requests in flight: it is never negative and a
\* request that is answered, whatever its status, takes back what it added.
C27_GaugeCountsInFlight ==
    /\ ACTIVE_REQUESTS = inFlight["/get"] + inFlight["/api/recommend"]
    /\ ACTIVE_REQUESTS >= 0

\* A request was answered 500 while another one of each endpoint is in flight.
C27_Witness ==
    /\ animeStatus = 500
    /\ inFlight["/get"] = 1
    /\ inFlight["/api/recommend"] = 1
    /\ ACTIVE_REQUESTS = 2

\* C28: a request that increments REQUEST_COUNT increments it once, with the status it is
\* answered with.
C28_CountedOnceWithStatus ==
    animeCounted # <<>> => animeCounted = <<animeStatus>>
====
